---- MODULE Spec2Model ----
(***************************************************************************)
(* A state-machine model of two components of AMReX:                       *)
(*                                                                         *)
(*   - HypreNodeLap (Src/Extern/HYPRE/AMReX_HypreNodeLap.cpp): the global  *)
(*     node numbering over a distributed set of patches, the assembly of   *)
(*     the IJ matrix, and the load / retrieve of the IJ vectors.           *)
(*   - MLABecLaplacian: the coefficient store of the cell-centred          *)
(*     alpha*A - beta*div(B grad) operator, its restriction, the Robin     *)
(*     linearisation and the singularity check.                            *)
(*                                                                         *)
(* The model is two-dimensional (AMREX_SPACEDIM == 2).  Index pairs are    *)
(* <<i, j>>; a box is a record [lo, hi] of two index pairs.                *)
(***************************************************************************)
EXTENDS Integers, Sequences, FiniteSets, TLC

(***************************************************************************)
(* Boxes and index arithmetic                                              *)
(***************************************************************************)

Box(lx, ly, hx, hy) == [lo |-> <<lx, ly>>, hi |-> <<hx, hy>>]

\* amrex::convert(grids, IntVect::TheNodeVector()): the nodes of a cell box.
NodeBox(bx) == [lo |-> bx.lo, hi |-> <<bx.hi[1] + 1, bx.hi[2] + 1>>]

Grow(bx, n) == [lo |-> <<bx.lo[1] - n, bx.lo[2] - n>>,
                hi |-> <<bx.hi[1] + n, bx.hi[2] + n>>]

Pts(bx) == {<<i, j>> : i \in bx.lo[1]..bx.hi[1], j \in bx.lo[2]..bx.hi[2]}

BoxLenX(bx) == bx.hi[1] - bx.lo[1] + 1

BoxLenY(bx) == bx.hi[2] - bx.lo[2] + 1

NumPts(bx) == BoxLenX(bx) * BoxLenY(bx)

\* The order of "for j { for i { ... } }": x runs fastest.
Traverse(bx) ==
    [n \in 1..NumPts(bx) |->
        <<bx.lo[1] + ((n - 1) % BoxLenX(bx)), bx.lo[2] + ((n - 1) \div BoxLenX(bx))>>]

\* Position (1-based) of a point in the traversal of a box.
TraverseIndex(bx, pos) ==
    (pos[2] - bx.lo[2]) * BoxLenX(bx) + (pos[1] - bx.lo[1]) + 1

RECURSIVE SumSeq(_)
SumSeq(s) == IF Len(s) = 0 THEN 0 ELSE Head(s) + SumSeq(Tail(s))

RECURSIVE SeqOfSet(_)
SeqOfSet(S) ==
    IF S = {} THEN <<>>
    ELSE LET m == CHOOSE a \in S : \A c \in S : a <= c
         IN  <<m>> \o SeqOfSet(S \ {m})

\* std::numeric_limits<Int>::lowest() of a 32-bit HYPRE_Int
IntLowest == (0 - 2147483647) - 1

(***************************************************************************)
(* Bounds of the model                                                     *)
(***************************************************************************)

\* number of solve() calls made on one assembler
MaxSolves == 1

\* number of times the operator behind the assembler is refreshed
MaxLinopRefresh == 1

(***************************************************************************)
(* HypreNodeLap: the inputs                                                *)
(*                                                                         *)
(* A layout is what the constructor is handed: the cell boxes (grids),     *)
(* the rank of each box (dmap), the number of ranks of the communicator,   *)
(* and the periodicity of the geometry (the period in cells per            *)
(* direction, 0 when the direction is not periodic).  "dir" says which     *)
(* Dirichlet masks are enumerated for the layout ("none": no Dirichlet     *)
(* node; "few": none, all, or a single node), "own" which owner masks      *)
(* ("any": every mask with one owner per node; "first": the lowest box     *)
(* that holds a node owns it) and "eb" whether a cut-cell factory is       *)
(* present.                                                                *)
(***************************************************************************)

HypreLayouts ==
    { \* two boxes side by side, one per rank
      [name |-> "two_ranks", grids |-> <<Box(0, 0, 0, 0), Box(1, 0, 1, 0)>>,
       dmap |-> <<0, 1>>, num_procs |-> 2, period |-> <<0, 0>>,
       dir |-> "few", own |-> "any", eb |-> FALSE],
      \* three ranks, the middle one without boxes, boxes in reverse rank order
      [name |-> "idle_rank", grids |-> <<Box(0, 0, 0, 0), Box(1, 0, 1, 0)>>,
       dmap |-> <<2, 0>>, num_procs |-> 3, period |-> <<0, 0>>,
       dir |-> "few", own |-> "first", eb |-> FALSE],
      \* two boxes on one rank, periodic in x
      [name |-> "periodic", grids |-> <<Box(0, 0, 0, 0), Box(1, 0, 1, 0)>>,
       dmap |-> <<0, 0>>, num_procs |-> 1, period |-> <<2, 0>>,
       dir |-> "few", own |-> "any", eb |-> FALSE],
      \* cut-cell geometry: the cells with i <= 0 are covered
      [name |-> "cut_cell", grids |-> <<Box(0, 0, 0, 0), Box(1, 0, 1, 0)>>,
       dmap |-> <<0, 1>>, num_procs |-> 2, period |-> <<0, 0>>,
       dir |-> "few", own |-> "any", eb |-> TRUE],
      \* a single box of 3 x 3 cells (4 x 4 nodes) on a single rank, no masking
      [name |-> "single_3x3", grids |-> <<Box(0, 0, 2, 2)>>,
       dmap |-> <<0>>, num_procs |-> 1, period |-> <<0, 0>>,
       dir |-> "none", own |-> "first", eb |-> FALSE],
      \* a single box of 4 x 4 cells (5 x 5 nodes) on a single rank, no masking
      [name |-> "single_4x4", grids |-> <<Box(0, 0, 3, 3)>>,
       dmap |-> <<0>>, num_procs |-> 1, period |-> <<0, 0>>,
       dir |-> "none", own |-> "first", eb |-> FALSE] }

VARIABLES
    layout,          \* grids, dmap, comm size, geom.periodicity(), factory
    owner_mask,      \* owner_mask[p][pos]: 1 where box p owns the node
    dirichlet_mask,  \* dirichlet_mask[p][pos]: nonzero where the node is Dirichlet
    adjust_singular, \* hypre_ij->adjustSingularMatrix()
    bottom_singular, \* linop->isBottomSingular()
    linop_refreshes, \* how often the operator was refreshed
    pc,              \* pc[r]: where rank r is in the constructor / solve
    nnodes_grid,     \* nnodes_grid[p]
    node_id,         \* node_id[p][pos], one ghost layer
    node_id_vec,     \* node_id_vec[p]: the rows of box p
    nnodes_proc,     \* nnodes_proc[r]
    nnodes_allprocs, \* nnodes_allprocs[r]: the gathered counts, as rank r holds them
    proc_begin,      \* proc_begin[r]
    proc_end,        \* proc_end[r]
    offset,          \* offset[p]
    ilower,          \* ilower[r]
    iupper,          \* iupper[r]
    hypreA,          \* the IJ matrix: row -> (column -> value)
    hypreb,          \* the IJ vector b: row -> value
    hyprex,          \* the IJ vector x: row -> value
    rhs,             \* the field handed to solve()
    soln,            \* the field solve() fills
    tmpsoln,         \* the scratch field of getSolution
    nsolves,         \* completed or started solve() calls
    solver,          \* what the last hypre_ij->solve computed: "identity" (x := b) or "other"
    ub_hit           \* an access outside a container happened

VARIABLES
    scen,            \* what the MLABecLaplacian was constructed with (geometry, BCs)
    abec,            \* the MLABecLaplacian object: a record of its members
    last_call,       \* the last non-const member function called on it
    in_call,         \* the const member function that is running on it
    ncalls           \* how many non-const member functions were called

coef_vars == <<scen, abec, last_call, in_call, ncalls>>

\* No MLABecLaplacian exists.
CoefIdle ==
    /\ scen = [name |-> "none"]
    /\ abec = [status |-> "none"]
    /\ last_call = [op |-> "none"]
    /\ in_call = [op |-> "none"]
    /\ ncalls = 0

\* The inputs of the assembler.
hypre_args == <<layout, owner_mask, dirichlet_mask, adjust_singular>>

\* What the assembler never writes: its inputs, and the MLABecLaplacian.
hypre_in == <<hypre_args, coef_vars>>

hypre_num == <<nnodes_grid, node_id, nnodes_proc, nnodes_allprocs,
               proc_begin, proc_end, offset, ilower, iupper>>

hypre_mat == <<node_id_vec, hypreA>>

hypre_vec == <<hypreb, hyprex, rhs, soln, tmpsoln>>

hypre_vars == <<hypre_args, bottom_singular, linop_refreshes, pc, hypre_num,
                hypre_mat, hypre_vec, nsolves, solver, ub_hit>>

\* No HypreNodeLap exists.
HypreIdle ==
    /\ layout = [name |-> "none"]
    /\ owner_mask = <<>> /\ dirichlet_mask = <<>>
    /\ adjust_singular = FALSE /\ bottom_singular = FALSE
    /\ linop_refreshes = 0 /\ pc = <<>>
    /\ nnodes_grid = <<>> /\ node_id = <<>> /\ node_id_vec = <<>>
    /\ nnodes_proc = <<>> /\ nnodes_allprocs = <<>>
    /\ proc_begin = <<>> /\ proc_end = <<>> /\ offset = <<>>
    /\ ilower = <<>> /\ iupper = <<>>
    /\ hypreA = <<>> /\ hypreb = <<>> /\ hyprex = <<>>
    /\ rhs = <<>> /\ soln = <<>> /\ tmpsoln = <<>>
    /\ nsolves = 0 /\ solver = "none" /\ ub_hit = FALSE

vars == <<hypre_vars, coef_vars>>

(***************************************************************************)
(* HypreNodeLap: geometry helpers                                          *)
(***************************************************************************)

Patches == 1..Len(layout.grids)

Ranks == 0..(layout.num_procs - 1)

\* The boxes of a rank, in MFIter order.
LocalPatches(r) == SeqOfSet({p \in Patches : layout.dmap[p] = r})

ValidBox(p) == NodeBox(layout.grids[p])

ValidPts(p) == Pts(ValidBox(p))

GrownPts(p) == Pts(Grow(ValidBox(p), 1))

\* The physical node behind an index pair, under geom.periodicity().
PhysOf(lay, pos) ==
    <<IF lay.period[1] > 0 THEN pos[1] % lay.period[1] ELSE pos[1],
      IF lay.period[2] > 0 THEN pos[2] % lay.period[2] ELSE pos[2]>>

Phys(pos) == PhysOf(layout, pos)

\* All (box, position) copies of the valid nodes of a layout.
CopiesOf(lay) ==
    UNION {{<<p, pos>> : pos \in Pts(NodeBox(lay.grids[p]))} : p \in 1..Len(lay.grids)}

PhysNodesOf(lay) == {PhysOf(lay, c[2]) : c \in CopiesOf(lay)}

\* Every way to give each physical node exactly one owning copy.
RECURSIVE OwnerSets(_, _)
OwnerSets(lay, nodes) ==
    IF nodes = {} THEN {{}}
    ELSE LET n == CHOOSE m \in nodes : TRUE
         IN  {S \cup {c} : S \in OwnerSets(lay, nodes \ {n}),
                           c \in {d \in CopiesOf(lay) : PhysOf(lay, d[2]) = n}}

\* The Dirichlet node sets enumerated for a layout.
DirichletSets(lay) ==
    IF lay.dir = "none" THEN {{}}
    ELSE {{}, PhysNodesOf(lay)} \cup {{n} : n \in PhysNodesOf(lay)}

\* The owner masks enumerated for a layout, as sets of owning copies.
OwnerMasks(lay) ==
    IF lay.own = "any" THEN OwnerSets(lay, PhysNodesOf(lay))
    ELSE {{c \in CopiesOf(lay) :
              \A d \in CopiesOf(lay) :
                  PhysOf(lay, d[2]) = PhysOf(lay, c[2]) =>
                      (c[1] < d[1] \/ (c[1] = d[1] /\ TraverseIndex(NodeBox(lay.grids[c[1]]), c[2])
                                                      <= TraverseIndex(NodeBox(lay.grids[c[1]]), d[2])))}}

\* EBCellFlag::isCovered() of cell c (ghost cells included): with a
\* cut-cell factory the cells with i <= 0 are covered.
IsCovered(c) == layout.eb /\ c[1] <= 0

\* A field in which every position of every box holds the same value.
UniformField(lay, v) ==
    [p \in 1..Len(lay.grids) |-> [pos \in Pts(NodeBox(lay.grids[p])) |-> v]]

\* The right-hand side handed to the k-th solve(): every position of every
\* box holds a nonzero value of its own, another one in every solve.
RhsOfSolve(lay, k) ==
    [p \in 1..Len(lay.grids) |->
        [pos \in Pts(NodeBox(lay.grids[p])) |->
            1000 * k + 100 * p + TraverseIndex(NodeBox(lay.grids[p]), pos)]]

(***************************************************************************)
(* HypreNodeLap: the state after the member initialisers and the define()  *)
(* calls of lines 23-53, before the numbering loop                         *)
(***************************************************************************)

HypreInit ==
    /\ CoefIdle
    /\ layout \in HypreLayouts
    /\ \E O \in OwnerMasks(layout) :
           owner_mask = [p \in Patches |->
                            [pos \in ValidPts(p) |-> IF <<p, pos>> \in O THEN 1 ELSE 0]]
    /\ \E D \in DirichletSets(layout) :
           dirichlet_mask = [p \in Patches |->
                                [pos \in ValidPts(p) |-> IF Phys(pos) \in D THEN 1 ELSE 0]]
    /\ adjust_singular \in BOOLEAN
    /\ bottom_singular \in BOOLEAN
    /\ linop_refreshes = 0
    /\ pc = [r \in Ranks |-> "count"]
    /\ nnodes_grid = [p \in Patches |-> 0]
    /\ node_id = [p \in Patches |-> [pos \in GrownPts(p) |-> IntLowest]]
    /\ node_id_vec = [p \in Patches |-> <<>>]
    /\ nnodes_proc = [r \in Ranks |-> 0]
    /\ nnodes_allprocs = [r \in Ranks |-> <<>>]
    /\ proc_begin = [r \in Ranks |-> 0]
    /\ proc_end = [r \in Ranks |-> 0]
    /\ offset = [p \in Patches |-> 0]
    /\ ilower = [r \in Ranks |-> 0]
    /\ iupper = [r \in Ranks |-> 0]
    /\ hypreA = <<>>
    /\ hypreb = <<>>
    /\ hyprex = <<>>
    /\ rhs = UniformField(layout, 0)
    /\ soln = UniformField(layout, 7)
    /\ tmpsoln = UniformField(layout, 0)
    /\ nsolves = 0
    /\ solver = "none"
    /\ ub_hit = FALSE

(***************************************************************************)
(* HypreNodeLap::HypreNodeLap, the numbering loop (lines 57-144)           *)
(***************************************************************************)

\* The cut-cell test of lines 83-86: the four cells around the node.
AllCellsCovered(pos) ==
    /\ IsCovered(<<pos[1] - 1, pos[2] - 1>>)
    /\ IsCovered(<<pos[1], pos[2] - 1>>)
    /\ IsCovered(<<pos[1] - 1, pos[2]>>)
    /\ IsCovered(<<pos[1], pos[2]>>)

\* The mutation of the skip test: Dirichlet nodes are numbered too.
SkipNodeNoDirichlet(p, pos) ==
    \/ owner_mask[p][pos] = 0
    \/ (layout.eb /\ AllCellsCovered(pos))

\* The node is not numbered: lines 78 and 83-86 (with a cut-cell factory),
\* line 130 (without).
SkipNode(p, pos) ==
    \/ owner_mask[p][pos] = 0
    \/ dirichlet_mask[p][pos] # 0
    \/ (layout.eb /\ AllCellsCovered(pos))

\* The loop body over one box: nid(i,j,k) = lowest or id++.
RECURSIVE NumberLoop(_, _, _, _, _)
NumberLoop(p, seq, n, id, nid) ==
    IF n > Len(seq) THEN [nid |-> nid, id |-> id]
    ELSE IF SkipNode(p, seq[n])
         THEN NumberLoop(p, seq, n + 1, id, [nid EXCEPT ![seq[n]] = IntLowest])
         ELSE NumberLoop(p, seq, n + 1, id + 1, [nid EXCEPT ![seq[n]] = id])

NumberBox(p) == NumberLoop(p, Traverse(ValidBox(p)), 1, 0, node_id[p])

Count(r) ==
    /\ pc[r] = "count"
    /\ node_id' = [p \in Patches |->
                      IF layout.dmap[p] = r THEN NumberBox(p).nid ELSE node_id[p]]
    /\ nnodes_grid' = [p \in Patches |->
                          IF layout.dmap[p] = r THEN NumberBox(p).id ELSE nnodes_grid[p]]
    /\ nnodes_proc' = [nnodes_proc EXCEPT
                          ![r] = SumSeq([n \in 1..Len(LocalPatches(r)) |->
                                            NumberBox(LocalPatches(r)[n]).id])]
    /\ pc' = [pc EXCEPT ![r] = "gather"]
    /\ UNCHANGED <<hypre_in, bottom_singular, linop_refreshes, nnodes_allprocs,
                   proc_begin, proc_end, offset, ilower, iupper, hypre_mat,
                   hypre_vec, nsolves, solver, ub_hit>>

(***************************************************************************)
(* MPI_Allgather of the counts (lines 146-149): a collective, completed    *)
(* once every rank has entered it                                          *)
(***************************************************************************)

Allgather ==
    /\ \A r \in Ranks : pc[r] = "gather"
    /\ nnodes_allprocs' = [r \in Ranks |->
                              [n \in 1..layout.num_procs |-> nnodes_proc[n - 1]]]
    /\ pc' = [r \in Ranks |-> "offset"]
    /\ UNCHANGED <<hypre_in, bottom_singular, linop_refreshes, nnodes_grid, node_id,
                   nnodes_proc, proc_begin, proc_end, offset, ilower, iupper,
                   hypre_mat, hypre_vec, nsolves, solver, ub_hit>>

(***************************************************************************)
(* The prefix sums, the offsets of the boxes and fill_node_id              *)
(* (lines 150-176 and 267-284)                                             *)
(***************************************************************************)

\* The mutation of the prefix sum: the rank's own count is included.
ProcBeginInclusive(r) ==
    SumSeq([n \in 1..(r + 1) |-> nnodes_allprocs[r][n]])

\* Lines 150-153: the counts of the ranks below myid.
ProcBegin(r) ==
    SumSeq([n \in 1..r |-> nnodes_allprocs[r][n]])

\* Lines 162-168: offset[mfi] = proc_end; proc_end += nnodes_grid[mfi].
RECURSIVE OffsetLoop(_, _, _, _)
OffsetLoop(lp, n, pend, off) ==
    IF n > Len(lp) THEN [offset |-> off, proc_end |-> pend]
    ELSE OffsetLoop(lp, n + 1, pend + nnodes_grid[lp[n]],
                    [off EXCEPT ![lp[n]] = pend])

\* The mutation of fill_node_id: the offset is not added.
FillNodeIdNoOffset(nid, os) ==
    [pos \in DOMAIN nid |-> IF nid[pos] >= 0 THEN nid[pos] ELSE 0 - 1]

\* fill_node_id on one box (lines 272-282), over the grown box.
FillNodeId(nid, os) ==
    [pos \in DOMAIN nid |-> IF nid[pos] >= 0 THEN nid[pos] + os ELSE 0 - 1]

Offsets(r) ==
    /\ pc[r] = "offset"
    /\ LET pb  == ProcBegin(r)
           res == OffsetLoop(LocalPatches(r), 1, pb, offset)
       IN  /\ proc_begin' = [proc_begin EXCEPT ![r] = pb]
           /\ proc_end' = [proc_end EXCEPT ![r] = res.proc_end]
           /\ offset' = res.offset
           /\ IF res.proc_end = pb + nnodes_proc[r]
              THEN \* the assertion of line 169 holds
                   /\ node_id' = [p \in Patches |->
                                     IF layout.dmap[p] = r
                                     THEN FillNodeId(node_id[p], res.offset[p])
                                     ELSE node_id[p]]
                   /\ pc' = [pc EXCEPT ![r] = "sync"]
              ELSE /\ node_id' = node_id
                   /\ pc' = [pc EXCEPT ![r] = "aborted"]
    /\ UNCHANGED <<hypre_in, bottom_singular, linop_refreshes, nnodes_grid,
                   nnodes_proc, nnodes_allprocs, ilower, iupper, hypre_mat,
                   hypre_vec, nsolves, solver, ub_hit>>

(***************************************************************************)
(* The shared-node exchange (lines 178-179): amrex::OverrideSync gives     *)
(* every valid copy of a node the value its owner holds; FillBoundary      *)
(* fills the ghost nodes from the valid nodes they coincide with.          *)
(***************************************************************************)

\* The copy of the physical node of pos that owns it.
OwnerCopy(pos) ==
    CHOOSE c \in CopiesOf(layout) : Phys(c[2]) = Phys(pos) /\ owner_mask[c[1]][c[2]] = 1

HasValidCopy(pos) == \E c \in CopiesOf(layout) : Phys(c[2]) = Phys(pos)

OverrideSync ==
    /\ \A r \in Ranks : pc[r] = "sync"
    /\ node_id' = [p \in Patches |->
                      [pos \in GrownPts(p) |->
                          IF pos \in ValidPts(p)
                          THEN node_id[OwnerCopy(pos)[1]][OwnerCopy(pos)[2]]
                          ELSE node_id[p][pos]]]
    /\ pc' = [r \in Ranks |-> "fill"]
    /\ UNCHANGED <<hypre_in, bottom_singular, linop_refreshes, nnodes_grid,
                   nnodes_proc, nnodes_allprocs, proc_begin, proc_end, offset,
                   ilower, iupper, hypre_mat, hypre_vec, nsolves, solver, ub_hit>>

FillBoundary ==
    /\ \A r \in Ranks : pc[r] = "fill"
    /\ node_id' = [p \in Patches |->
                      [pos \in GrownPts(p) |->
                          IF pos \notin ValidPts(p) /\ HasValidCopy(pos)
                          THEN node_id[OwnerCopy(pos)[1]][OwnerCopy(pos)[2]]
                          ELSE node_id[p][pos]]]
    /\ pc' = [r \in Ranks |-> "matrix"]
    /\ UNCHANGED <<hypre_in, bottom_singular, linop_refreshes, nnodes_grid,
                   nnodes_proc, nnodes_allprocs, proc_begin, proc_end, offset,
                   ilower, iupper, hypre_mat, hypre_vec, nsolves, solver, ub_hit>>

(***************************************************************************)
(* Matrix assembly (lines 181-242)                                         *)
(*                                                                         *)
(* MLNodeLinOp::fillIJMatrix is the stencil provider: for every owned      *)
(* node of the box with an id >= 0, in traversal order, it appends the     *)
(* row id to rows, the number of its stencil entries to ncols, and the     *)
(* global column ids and coefficients of the entries to cols and mat.      *)
(***************************************************************************)

StencilOffsets ==
    <<<<0 - 1, 0 - 1>>, <<0, 0 - 1>>, <<1, 0 - 1>>,
      <<0 - 1, 0>>,     <<0, 0>>,     <<1, 0>>,
      <<0 - 1, 1>>,     <<0, 1>>,     <<1, 1>>>>

\* The coefficient the stencil provider produces for an entry.
StencilCoef(row, col) == IF row = col THEN 8 ELSE 0 - 1

RECURSIVE FilterSeq(_, _, _)
FilterSeq(s, n, keep) ==
    IF n > Len(s) THEN <<>>
    ELSE (IF keep[s[n]] THEN <<s[n]>> ELSE <<>>) \o FilterSeq(s, n + 1, keep)

\* The owned, numbered positions of a box in traversal order.
RowPositions(p) ==
    FilterSeq(Traverse(ValidBox(p)), 1,
              [pos \in ValidPts(p) |-> node_id[p][pos] >= 0 /\ owner_mask[p][pos] = 1])

\* The stencil columns of the row at pos: the neighbours with an id >= 0.
RowCols(p, pos) ==
    LET nb == [n \in 1..Len(StencilOffsets) |->
                  node_id[p][<<pos[1] + StencilOffsets[n][1], pos[2] + StencilOffsets[n][2]>>]]
    IN  FilterSeq(nb, 1, [c \in {nb[n] : n \in 1..Len(nb)} |-> c >= 0])

RECURSIVE Flatten(_)
Flatten(ss) == IF Len(ss) = 0 THEN <<>> ELSE Head(ss) \o Flatten(Tail(ss))

fillIJMatrix(p) ==
    LET rp   == RowPositions(p)
        rows == [n \in 1..Len(rp) |-> node_id[p][rp[n]]]
        rc   == [n \in 1..Len(rp) |-> RowCols(p, rp[n])]
    IN  [ncols |-> [n \in 1..Len(rp) |-> Len(rc[n])],
         rows  |-> rows,
         cols  |-> Flatten(rc),
         mat   |-> Flatten([n \in 1..Len(rp) |->
                               [m \in 1..Len(rc[n]) |-> StencilCoef(rows[n], rc[n][m])]])]

\* The mutation of the pin: every entry of the first row is zeroed.
PinFirstRowAll(ij) ==
    [ij EXCEPT !.mat = [ic \in 1..Len(ij.mat) |->
                           IF ic <= ij.ncols[1] THEN 0 ELSE ij.mat[ic]]]

\* Lines 234-236: the off-diagonal entries of the first row become zero.
PinFirstRow(ij) ==
    [ij EXCEPT !.mat = [ic \in 1..Len(ij.mat) |->
                           IF ic <= ij.ncols[1]
                           THEN (IF ij.cols[ic] = ij.rows[1] THEN ij.mat[ic] ELSE 0)
                           ELSE ij.mat[ic]]]

\* The mutation of the pin test: the first row of every box is pinned.
PinAppliesAnyRow(ij) == adjust_singular /\ bottom_singular

\* Lines 231-233.
PinApplies(ij) == adjust_singular /\ bottom_singular /\ ij.rows[1] = 0

\* HYPRE_IJMatrixSetValues: row n takes the next ncols[n] entries.
RECURSIVE SetMatrixValues(_, _, _, _)
SetMatrixValues(mtx, ij, n, at) ==
    IF n > Len(ij.rows) THEN mtx
    ELSE LET ents == [m \in 1..ij.ncols[n] |-> <<ij.cols[at + m], ij.mat[at + m]>>]
             row  == [c \in {ents[m][1] : m \in 1..Len(ents)} |->
                         LET last == CHOOSE m \in 1..Len(ents) :
                                        /\ ents[m][1] = c
                                        /\ \A k \in 1..Len(ents) : ents[k][1] = c => k <= m
                         IN  ents[last][2]]
         IN  SetMatrixValues((ij.rows[n] :> row) @@ mtx, ij, n + 1, at + ij.ncols[n])

\* The body of the loop of lines 198-241 for one box with nrows > 0.
AssembledBox(p) ==
    LET ij == fillIJMatrix(p)
    IN  IF PinApplies(ij) THEN PinFirstRow(ij) ELSE ij

RECURSIVE MatrixLoop(_, _, _)
MatrixLoop(lp, n, mtx) ==
    IF n > Len(lp) THEN mtx
    ELSE IF nnodes_grid[lp[n]] > 0
         THEN MatrixLoop(lp, n + 1, SetMatrixValues(mtx, AssembledBox(lp[n]), 1, 0))
         ELSE MatrixLoop(lp, n + 1, mtx)

Matrix(r) ==
    /\ pc[r] = "matrix"
    /\ ilower' = [ilower EXCEPT ![r] = proc_begin[r]]
    /\ iupper' = [iupper EXCEPT ![r] = proc_end[r] - 1]
    /\ node_id_vec' = [p \in Patches |->
                          IF layout.dmap[p] = r /\ nnodes_grid[p] > 0
                          THEN fillIJMatrix(p).rows
                          ELSE node_id_vec[p]]
    /\ hypreA' = MatrixLoop(LocalPatches(r), 1, hypreA)
    /\ pc' = [pc EXCEPT ![r] = "assemble"]
    /\ UNCHANGED <<hypre_in, bottom_singular, linop_refreshes, nnodes_grid, node_id,
                   nnodes_proc, nnodes_allprocs, proc_begin, proc_end, offset,
                   hypre_vec, nsolves, solver, ub_hit>>

\* HYPRE_IJMatrixAssemble (line 242): a collective.
MatrixAssemble ==
    /\ \A r \in Ranks : pc[r] = "assemble"
    /\ pc' = [r \in Ranks |-> "ready"]
    /\ UNCHANGED <<hypre_in, bottom_singular, linop_refreshes, hypre_num, hypre_mat,
                   hypre_vec, nsolves, solver, ub_hit>>

(***************************************************************************)
(* The operator behind the assembler is refreshed between two uses of the  *)
(* assembler, which may change what isBottomSingular() returns.            *)
(***************************************************************************)

LinopRefresh ==
    /\ \A r \in Ranks : pc[r] = "ready"
    /\ linop_refreshes < MaxLinopRefresh
    /\ bottom_singular' = ~bottom_singular
    /\ linop_refreshes' = linop_refreshes + 1
    /\ UNCHANGED <<hypre_in, pc, hypre_num, hypre_mat, hypre_vec, nsolves, solver, ub_hit>>

(***************************************************************************)
(* HypreNodeLap::solve (lines 248-265): every rank calls it with its part  *)
(* of soln and rhs.                                                        *)
(***************************************************************************)

BeginSolve ==
    /\ \A r \in Ranks : pc[r] = "ready"
    /\ nsolves < MaxSolves
    /\ rhs' = RhsOfSolve(layout, nsolves + 1)
    /\ nsolves' = nsolves + 1
    /\ pc' = [r \in Ranks |-> "load"]
    /\ UNCHANGED <<hypre_in, bottom_singular, linop_refreshes, hypre_num, hypre_mat,
                   hypreb, hyprex, soln, tmpsoln, solver, ub_hit>>

\* HYPRE_IJVectorInitialize (lines 254-255): the rows of the rank are zero.
VectorInitialize(v, r) ==
    [g \in ilower[r]..iupper[r] |-> 0] @@ v

\* HYPRE_IJVectorSetValues(v, nrows, rows, values)
VectorSetValues(v, nrows, rows, values) ==
    [g \in {rows[n] : n \in 1..nrows} |->
        values[CHOOSE n \in 1..nrows :
                  rows[n] = g /\ \A k \in 1..nrows : rows[k] = g => k <= n]] @@ v

\* The mutation of the gather of the right-hand side: the owner is not asked.
LoadedPositionsAnyOwner(p) ==
    FilterSeq(Traverse(ValidBox(p)), 1, [pos \in ValidPts(p) |-> node_id[p][pos] >= 0])

\* The positions whose values loadVectors pushes to bvec and getSolution
\* reads back (lines 311-319 and 354-362).
LoadedPositions(p) ==
    FilterSeq(Traverse(ValidBox(p)), 1,
              [pos \in ValidPts(p) |-> node_id[p][pos] >= 0 /\ owner_mask[p][pos] = 1])

\* The mutation of the vector pin: the first entry of every box is zeroed.
VectorPinAppliesAny(rows) == adjust_singular /\ bottom_singular

\* Lines 321-323, for a box whose row list is not empty.
VectorPinApplies(rows) == adjust_singular /\ bottom_singular /\ rows[1] = 0

\* bvec of one box (lines 302-325).
BVec(p) ==
    LET lp   == LoadedPositions(p)
        bvec == [n \in 1..Len(lp) |-> rhs[p][lp[n]]]
    IN  IF Len(node_id_vec[p]) > 0 /\ Len(bvec) > 0 /\ VectorPinApplies(node_id_vec[p])
        THEN [bvec EXCEPT ![1] = 0]
        ELSE bvec

\* The test of line 323 reads rows[0] of a box without rows.
ReadsMissingRow(p) ==
    adjust_singular /\ bottom_singular /\ Len(node_id_vec[p]) = 0

\* The loop of lines 294-329 over the boxes of a rank.  soln has just been
\* set to zero, so the values handed to x are zeros.
RECURSIVE LoadLoop(_, _, _)
LoadLoop(lp, n, vec) ==
    IF n > Len(lp) THEN vec
    ELSE LET p     == lp[n]
             nrows == nnodes_grid[p]
             rows  == node_id_vec[p]
         IN  LoadLoop(lp, n + 1,
                 [x |-> VectorSetValues(vec.x, nrows, rows, [k \in 1..nrows |-> 0]),
                  b |-> VectorSetValues(vec.b, nrows, rows, BVec(p))])

Load(r) ==
    /\ pc[r] = "load"
    /\ LET vec == LoadLoop(LocalPatches(r), 1,
                           [x |-> VectorInitialize(hyprex, r),
                            b |-> VectorInitialize(hypreb, r)])
       IN  /\ hyprex' = vec.x
           /\ hypreb' = vec.b
    /\ soln' = [p \in Patches |->
                   IF layout.dmap[p] = r THEN [pos \in ValidPts(p) |-> 0] ELSE soln[p]]
    /\ ub_hit' = (ub_hit \/ \E p \in Patches : layout.dmap[p] = r /\ ReadsMissingRow(p))
    /\ pc' = [pc EXCEPT ![r] = "vassemble"]
    /\ UNCHANGED <<hypre_in, bottom_singular, linop_refreshes, hypre_num, hypre_mat,
                   rhs, tmpsoln, nsolves, solver>>

\* The read of rows[0] of an empty row list ends the process.
LoadCrash(r) ==
    /\ pc[r] = "load"
    /\ \E p \in Patches : layout.dmap[p] = r /\ ReadsMissingRow(p)
    /\ ub_hit' = TRUE
    /\ pc' = [pc EXCEPT ![r] = "crashed"]
    /\ UNCHANGED <<hypre_in, bottom_singular, linop_refreshes, hypre_num, hypre_mat,
                   hypre_vec, nsolves, solver>>

\* HYPRE_IJVectorAssemble of x and b (lines 259-260): a collective.
VectorAssemble ==
    /\ \A r \in Ranks : pc[r] = "vassemble"
    /\ pc' = [r \in Ranks |-> "hsolve"]
    /\ UNCHANGED <<hypre_in, bottom_singular, linop_refreshes, hypre_num, hypre_mat,
                   hypre_vec, nsolves, solver, ub_hit>>

\* hypre_ij->solve (line 262): the external solver, a collective.
HypreSolve ==
    /\ \A r \in Ranks : pc[r] = "hsolve"
    /\ \E kind \in {"identity", "other"} :
           /\ solver' = kind
           /\ hyprex' = IF kind = "identity" THEN hypreb
                        ELSE [g \in DOMAIN hypreb |-> 2 * hypreb[g] + g + 1]
    /\ pc' = [r \in Ranks |-> "getsol"]
    /\ UNCHANGED <<hypre_in, bottom_singular, linop_refreshes, hypre_num, hypre_mat,
                   hypreb, rhs, soln, tmpsoln, nsolves, ub_hit>>

\* The mutation of getSolution: the read position in xvec never advances.
GetBoxNoAdvance(p) ==
    LET rows == node_id_vec[p]
        lp   == LoadedPositions(p)
    IN  [pos \in ValidPts(p) |->
            IF \E n \in 1..Len(lp) : lp[n] = pos THEN hyprex[rows[1]] ELSE 0]

\* The mutation of getSolution: xvec is read from its end.
GetBoxReversed(p) ==
    LET rows == node_id_vec[p]
        xvec == [n \in 1..nnodes_grid[p] |-> hyprex[rows[n]]]
        lp   == LoadedPositions(p)
    IN  [pos \in ValidPts(p) |->
            IF \E n \in 1..Len(lp) : lp[n] = pos
            THEN xvec[Len(lp) + 1 - (CHOOSE n \in 1..Len(lp) : lp[n] = pos)]
            ELSE 0]

\* getSolution on one box (lines 340-362): xfab(i,j,k) = xvec[offset++].
GetBox(p) ==
    LET rows == node_id_vec[p]
        xvec == [n \in 1..nnodes_grid[p] |-> hyprex[rows[n]]]
        lp   == LoadedPositions(p)
    IN  [pos \in ValidPts(p) |->
            IF \E n \in 1..Len(lp) : lp[n] = pos
            THEN xvec[CHOOSE n \in 1..Len(lp) : lp[n] = pos]
            ELSE 0]

GetSolution(r) ==
    /\ pc[r] = "getsol"
    /\ tmpsoln' = [p \in Patches |-> IF layout.dmap[p] = r THEN GetBox(p) ELSE tmpsoln[p]]
    /\ pc' = [pc EXCEPT ![r] = "padd"]
    /\ UNCHANGED <<hypre_in, bottom_singular, linop_refreshes, hypre_num, hypre_mat,
                   hypreb, hyprex, rhs, soln, nsolves, solver, ub_hit>>

RECURSIVE SumOver(_, _)
SumOver(S, f) ==
    IF S = {} THEN 0
    ELSE LET c == CHOOSE d \in S : TRUE IN f[c] + SumOver(S \ {c}, f)

\* The mutation of the parallel add: a box adds only its own scratch values.
AddedToLocal(p, pos) == tmpsoln[p][pos]

\* soln.ParallelAdd(tmpsoln, ..., geom.periodicity()) (line 366): a position
\* receives the scratch values of every valid copy of its node.
AddedTo(p, pos) ==
    LET cs == {c \in CopiesOf(layout) : Phys(c[2]) = Phys(pos)}
    IN  SumOver(cs, [c \in cs |-> tmpsoln[c[1]][c[2]]])

ParallelAdd ==
    /\ \A r \in Ranks : pc[r] = "padd"
    /\ soln' = [p \in Patches |-> [pos \in ValidPts(p) |-> soln[p][pos] + AddedTo(p, pos)]]
    /\ pc' = [r \in Ranks |-> "ready"]
    /\ UNCHANGED <<hypre_in, bottom_singular, linop_refreshes, hypre_num, hypre_mat,
                   hypreb, hyprex, rhs, tmpsoln, nsolves, solver, ub_hit>>

HypreNext ==
    \/ \E r \in Ranks : Count(r)
    \/ Allgather
    \/ \E r \in Ranks : Offsets(r)
    \/ OverrideSync
    \/ FillBoundary
    \/ \E r \in Ranks : Matrix(r)
    \/ MatrixAssemble
    \/ LinopRefresh
    \/ BeginSolve
    \/ \E r \in Ranks : Load(r)
    \/ \E r \in Ranks : LoadCrash(r)
    \/ VectorAssemble
    \/ HypreSolve
    \/ \E r \in Ranks : GetSolution(r)
    \/ ParallelAdd

SpecHypre == HypreInit /\ [][HypreNext]_vars

\* The phases of a rank.
RankPhases ==
    {"count", "gather", "offset", "sync", "fill", "matrix", "assemble", "ready",
     "load", "vassemble", "hsolve", "getsol", "padd", "aborted", "crashed"}

\* A rank is inside a local phase of the assembler, or every rank has
\* entered the same collective: the guards of the steps of HypreNext other
\* than LinopRefresh, BeginSolve and LoadCrash.
HypreCanProgress ==
    \/ \E r \in Ranks : pc[r] \in {"count", "offset", "matrix", "load", "getsol"}
    \/ \E ph \in {"gather", "sync", "fill", "assemble", "vassemble", "hsolve", "padd"} :
           \A r \in Ranks : pc[r] = ph

\* A step of the assembler itself, told by the phases alone: a rank moves
\* on and no rank ends.  Among the steps of HypreNext these are the steps
\* other than LinopRefresh (no phase changes), BeginSolve (taken when no
\* step of the assembler is possible) and LoadCrash.
HypreProgress ==
    /\ HypreCanProgress
    /\ \E q \in [Ranks -> RankPhases] :
           /\ pc' = q
           /\ \A r \in Ranks : q[r] = "crashed" => pc[r] = "crashed"

\* The layouts with more than one rank.
HypreInitLive == HypreInit /\ layout.num_procs >= 2

\* Every rank keeps running and a collective completes once every rank has
\* entered it.  When solve() is called and when the operator is refreshed
\* is up to the caller.
SpecHypreLive == HypreInitLive /\ [][HypreNext]_vars /\ WF_pc(HypreProgress)

(***************************************************************************)
(* Properties of HypreNodeLap                                              *)
(***************************************************************************)

\* A copy of a node is retained: owned, not Dirichlet, and with cut-cell
\* geometry not surrounded by covered cells only.
Retained(c) ==
    /\ owner_mask[c[1]][c[2]] = 1
    /\ dirichlet_mask[c[1]][c[2]] = 0
    /\ ~(layout.eb /\ c[2][1] <= 0)

RetainedCopies == {c \in CopiesOf(layout) : Retained(c)}

RetainedOn(r) == {c \in RetainedCopies : layout.dmap[c[1]] = r}

RetainedIn(p) == {c \in RetainedCopies : c[1] = p}

NodeIdAt(c) == node_id[c[1]][c[2]]

\* Every rank has left the numbering part of the constructor.
AllNumbered == \A r \in Ranks : pc[r] \notin {"count", "gather", "offset", "aborted"}

AllRanksAt(ph) == \A r \in Ranks : pc[r] = ph

\* C1: once every rank has numbered its nodes, the ids of the retained
\* nodes are pairwise distinct and fill 0..N-1 exactly, where N is the sum
\* of the per-rank counts and equals the number of retained nodes; before
\* the shared-node exchange every other position, ghost nodes included,
\* holds a negative id.
C1_NumberingBijection ==
    AllNumbered =>
        LET N == SumSeq([n \in 1..layout.num_procs |-> nnodes_proc[n - 1]])
        IN  /\ N = Cardinality(RetainedCopies)
            /\ {NodeIdAt(c) : c \in RetainedCopies} = 0..(N - 1)
            /\ \A c, d \in RetainedCopies : NodeIdAt(c) = NodeIdAt(d) => c = d
            /\ AllRanksAt("sync") =>
                   \A p \in Patches : \A pos \in GrownPts(p) :
                       (pos \notin ValidPts(p) \/ ~Retained(<<p, pos>>))
                           => node_id[p][pos] < 0

\* C1 witness: two ranks hold retained nodes, a node is not retained, and
\* the exchange has not run yet.
C1_Witness ==
    /\ AllRanksAt("sync")
    /\ Cardinality({r \in Ranks : RetainedOn(r) # {}}) >= 2
    /\ Cardinality(RetainedCopies) >= 3
    /\ \E c \in CopiesOf(layout) : ~Retained(c)

\* A rank has handed its range to the external solver.
RangeSet(r) == pc[r] \notin {"count", "gather", "offset", "sync", "fill", "matrix", "aborted"}

\* C2: the range of every rank starts at the number of retained nodes of
\* the ranks below it and has as many rows as the rank retains, so the
\* ranges follow each other in rank order without gap or overlap, a rank
\* without retained nodes having the empty range iupper = ilower - 1; the
\* assertion on proc_end never fails.
C2_RangesArePrefixSums ==
    /\ \A r \in Ranks : pc[r] # "aborted"
    /\ \A r \in Ranks : RangeSet(r) =>
           /\ ilower[r] = Cardinality({c \in RetainedCopies : layout.dmap[c[1]] < r})
           /\ iupper[r] = ilower[r] + Cardinality(RetainedOn(r)) - 1
    /\ \A r \in Ranks : (r + 1 \in Ranks /\ RangeSet(r) /\ RangeSet(r + 1))
           => iupper[r] + 1 = ilower[r + 1]

\* C2 witness: three ranks with their ranges set, the middle one empty and
\* the other two not.
C2_Witness ==
    /\ layout.num_procs = 3
    /\ \A r \in Ranks : RangeSet(r)
    /\ iupper[1] = ilower[1] - 1
    /\ ilower[1] > 0
    /\ iupper[2] >= ilower[2]

\* The retained copies of box p that come before position n of its traversal.
RetainedBefore(p, n) ==
    Cardinality({m \in 1..(n - 1) : Retained(<<p, Traverse(ValidBox(p))[m]>>)})

\* Within a box the local ids follow the traversal (x fastest), start at
\* zero and skip exactly the positions that are not retained; once the
\* offsets are added the ids of a box are the block offset .. offset+count-1.
LocalIdsFollowTraversal ==
    \A p \in Patches :
        LET r  == layout.dmap[p]
            tr == Traverse(ValidBox(p))
        IN  /\ pc[r] \in {"gather", "offset"} =>
                \A n \in 1..Len(tr) :
                    node_id[p][tr[n]] = IF Retained(<<p, tr[n]>>)
                                        THEN RetainedBefore(p, n)
                                        ELSE IntLowest
            /\ pc[r] = "sync" =>
                /\ \A n \in 1..Len(tr) :
                       Retained(<<p, tr[n]>>)
                           => node_id[p][tr[n]] = offset[p] + RetainedBefore(p, n)
                /\ {NodeIdAt(c) : c \in RetainedIn(p)}
                       = offset[p]..(offset[p] + Cardinality(RetainedIn(p)) - 1)

\* The ids of an unmasked single box are the traversal positions, from 0.
SingleBoxRowMajor(name, count) ==
    (layout.name = name /\ AllNumbered) =>
        /\ \A pos \in ValidPts(1) :
               node_id[1][pos] = TraverseIndex(ValidBox(1), pos) - 1
        /\ {node_id[1][pos] : pos \in ValidPts(1)} = 0..(count - 1)

\* C7 (as amended): local ids follow the traversal order without gaps,
\* skipping exactly the non-retained positions, and become the block that
\* starts at the offset of the box; a single unmasked box of 4 x 4 cells has
\* 5 x 5 nodes and the ids 0..24 in row-major order (the ids are 0..15 for a
\* box of 3 x 3 cells, whose node box is 4 x 4).
C7_LocalIdsRowMajor ==
    /\ LocalIdsFollowTraversal
    /\ SingleBoxRowMajor("single_4x4", 25)
    /\ SingleBoxRowMajor("single_3x3", 16)

\* C7 as stated: the ids of a single 4 x 4 grid are 0..15.
C7_AsStated ==
    /\ LocalIdsFollowTraversal
    /\ SingleBoxRowMajor("single_4x4", 16)

\* C7 witness: a box with a positive offset in which a skipped position lies
\* between two numbered ones.
C7_Witness ==
    \E p \in Patches :
        /\ pc[layout.dmap[p]] = "sync"
        /\ offset[p] > 0
        /\ \E a, b, c \in 1..NumPts(ValidBox(p)) :
               /\ a < b /\ b < c
               /\ Retained(<<p, Traverse(ValidBox(p))[a]>>)
               /\ ~Retained(<<p, Traverse(ValidBox(p))[b]>>)
               /\ Retained(<<p, Traverse(ValidBox(p))[c]>>)

\* solve() has returned on every rank.
SolveReturned == AllRanksAt("ready") /\ nsolves >= 1

\* The copy that owns the node of a copy.
OwnerOf(c) == <<OwnerCopy(c[2])[1], OwnerCopy(c[2])[2]>>

AllLoaded == \A r \in Ranks : pc[r] \in {"vassemble", "hsolve", "getsol", "padd"}

\* The retained copy that holds global id g.
RowOwner(g) == CHOOSE c \in RetainedCopies : NodeIdAt(c) = g

\* C4: with the adjust-singular policy enabled and the bottom level
\* singular, the assembled matrix has the rows 0..N-1, every off-diagonal
\* entry of row 0 is zero and its diagonal is the stencil value, every entry
\* of every other row is the stencil value; the loaded right-hand side is
\* zero at row 0 and the field value of the owning node at every other row.
C4_SingularPin ==
    (adjust_singular /\ bottom_singular /\ linop_refreshes = 0) =>
        /\ (\A r \in Ranks : RangeSet(r)) =>
               /\ DOMAIN hypreA = 0..(Cardinality(RetainedCopies) - 1)
               /\ \A row \in DOMAIN hypreA :
                      /\ row \in DOMAIN hypreA[row]
                      /\ \A col \in DOMAIN hypreA[row] :
                             hypreA[row][col] = IF row = 0 /\ col # 0 THEN 0
                                                ELSE StencilCoef(row, col)
        /\ AllLoaded =>
               /\ DOMAIN hypreb = 0..(Cardinality(RetainedCopies) - 1)
               /\ \A g \in DOMAIN hypreb :
                      hypreb[g] = IF g = 0 THEN 0
                                  ELSE rhs[RowOwner(g)[1]][RowOwner(g)[2]]

\* C4 witness: the pin is active, rows are held by two ranks, row 0 has
\* off-diagonal entries and a nonzero field value, and the vectors are
\* loaded.
C4_Witness ==
    /\ adjust_singular /\ bottom_singular /\ linop_refreshes = 0
    /\ AllLoaded
    /\ Cardinality({r \in Ranks : RetainedOn(r) # {}}) >= 2
    /\ Cardinality(DOMAIN hypreA[0]) >= 2
    /\ rhs[RowOwner(0)[1]][RowOwner(0)[2]] # 0
    /\ hypreb[0] = 0

\* C14: after solve() returns, every valid copy of a node that has a global
\* id, in whichever box and on whichever rank, owned or not, across periodic
\* boundaries too, holds the entry of the solution vector x at the id that
\* the node's owner assigned, whatever the solver computed and in whatever
\* order the ranks ran.
C14_SharedNodesConsistent ==
    SolveReturned =>
        \A c \in CopiesOf(layout) :
            Retained(OwnerOf(c)) =>
                /\ NodeIdAt(c) = NodeIdAt(OwnerOf(c))
                /\ soln[c[1]][c[2]] = hyprex[NodeIdAt(OwnerOf(c))]

\* C14 witness: a solve returned with a solver other than the identity; a
\* node with a global id has a copy that does not own it, in another box,
\* and both copies hold the same nonzero value.
C14_Witness ==
    /\ SolveReturned /\ solver = "other"
    /\ \E c \in CopiesOf(layout) :
           /\ Retained(OwnerOf(c))
           /\ OwnerOf(c)[1] # c[1]
           /\ soln[c[1]][c[2]] # 0
           /\ soln[c[1]][c[2]] = soln[OwnerOf(c)[1]][OwnerOf(c)[2]]

\* C18: on every rank the constructor completes, and every solve() that
\* the ranks have entered returns on all of them, in every interleaving
\* of the ranks.
C18_AsStated ==
    /\ <>AllRanksAt("ready")
    /\ [](AllRanksAt("load") => <>SolveReturned)

\* C19: in every solve, whatever refreshes of the operator came before it,
\* the loaded right-hand side is zero at global row 0 exactly when the
\* off-diagonal entries of row 0 of the matrix assembled by the constructor
\* are zero (row 0 has off-diagonal entries and the field handed to solve()
\* is nonzero at its node).
C19_AsStated ==
    (/\ AllLoaded
     /\ 0 \in DOMAIN hypreA
     /\ Cardinality(DOMAIN hypreA[0]) >= 2
     /\ rhs[RowOwner(0)[1]][RowOwner(0)[2]] # 0) =>
        (hypreb[0] = 0 <=> \A col \in DOMAIN hypreA[0] \ {0} : hypreA[0][col] = 0)

\* C21: neither the constructor nor loadVectors nor getSolution accesses
\* element 0 of the row list or of the right-hand-side buffer of a box
\* without retained rows, with the adjust-singular policy and a singular
\* bottom level too: no access outside a container ever happens.
C21_AsStated == ~ub_hit

(***************************************************************************)
(* MLABecLaplacian: the coefficient store                                  *)
(*                                                                         *)
(* amrex::Real is modelled by exact rational numbers: a pair <<n, d>> in   *)
(* lowest terms with d > 0, and <<0, 0>> for the result of a division by   *)
(* zero.                                                                   *)
(***************************************************************************)

Abs(n) == IF n < 0 THEN 0 - n ELSE n

RECURSIVE Gcd(_, _)
Gcd(a, b) == IF b = 0 THEN a ELSE Gcd(b, a % b)

Rat(n, d) ==
    IF d = 0 THEN <<0, 0>>
    ELSE LET g == Gcd(Abs(n), Abs(d))
         IN  IF d < 0 THEN <<(0 - n) \div g, (0 - d) \div g>>
             ELSE <<n \div g, d \div g>>

RInt(n) == <<n, 1>>

RZero == RInt(0)

ROne == RInt(1)

RHalf == Rat(1, 2)

RNaN == <<0, 0>>

IsNaN(x) == x[2] = 0

RAdd(x, y) == IF IsNaN(x) \/ IsNaN(y) THEN RNaN
              ELSE Rat(x[1] * y[2] + y[1] * x[2], x[2] * y[2])

RSub(x, y) == IF IsNaN(x) \/ IsNaN(y) THEN RNaN
              ELSE Rat(x[1] * y[2] - y[1] * x[2], x[2] * y[2])

RMul(x, y) == IF IsNaN(x) \/ IsNaN(y) THEN RNaN
              ELSE Rat(x[1] * y[1], x[2] * y[2])

RDiv(x, y) == IF IsNaN(x) \/ IsNaN(y) THEN RNaN
              ELSE Rat(x[1] * y[2], x[2] * y[1])

RAbs(x) == <<Abs(x[1]), x[2]>>

RLe(x, y) == ~IsNaN(x) /\ ~IsNaN(y) /\ x[1] * y[2] <= y[1] * x[2]

RMax(x, y) == IF RLe(x, y) THEN y ELSE x

\* The sum of f over the finite set S.
RECURSIVE RSum(_, _)
RSum(S, f) ==
    IF S = {} THEN RZero
    ELSE LET c == CHOOSE c \in S : TRUE IN RAdd(f[c], RSum(S \ {c}, f))

\* x <= y * 1.e-12 for y >= 0, in integers that stay below 2^31.
LeTimesEpsilon(x, y) ==
    /\ ~IsNaN(x) /\ ~IsNaN(y)
    /\ \/ x[1] <= 0
       \/ x[1] * y[2] <= ((y[1] * x[2]) \div 1000000) \div 1000000

(***************************************************************************)
(* What an MLABecLaplacian is constructed with.  "levels" gives, per AMR   *)
(* level, the domain, the box of the level's grids and the number of       *)
(* relaxation (MG) levels; mg_coarsen_ratio_vec the coarsening ratios of   *)
(* the relaxation levels of AMR level 0; "pinned" the cells where the      *)
(* overset mask is 0, per relaxation level; lobc / hibc the boundary types *)
(* per component and direction; "robin" the (a, b) of the Robin condition; *)
(* dxi0 the inverse cell size of AMR level 0.                              *)
(***************************************************************************)

\* static constexpr int mg_coarsen_ratio of MLLinOp
mg_coarsen_ratio == 2

Neumann2 == <<"Neumann", "Neumann">>

OneLevel(dom, n) ==
    [l \in 0..0 |-> [domain |-> dom, bx |-> dom, nmg |-> n]]

TwoLevels(dom0, n0, dom1, bx1, n1) ==
    [l \in 0..1 |-> IF l = 0 THEN [domain |-> dom0, bx |-> dom0, nmg |-> n0]
                    ELSE [domain |-> dom1, bx |-> bx1, nmg |-> n1]]

NoPinned == [m \in 0..1 |-> {}]

CoefScenarios ==
    { \* one row of 8 cells, Robin at the high-x boundary
      [name |-> "robin_1d", ncomp |-> 1, num_amr_levels |-> 1,
       levels |-> OneLevel(Box(0, 0, 7, 0), 1), mg_coarsen_ratio_vec |-> <<>>,
       ref_ratio |-> 2, dxi0 |-> 1, has_overset |-> FALSE, pinned |-> NoPinned,
       lobc |-> [n \in 0..0 |-> Neumann2],
       hibc |-> [n \in 0..0 |-> <<"Robin", "Neumann">>], robin |-> <<0, 1>>],
      \* two components, all Neumann, two relaxation levels
      [name |-> "two_comp", ncomp |-> 2, num_amr_levels |-> 1,
       levels |-> OneLevel(Box(0, 0, 3, 1), 2), mg_coarsen_ratio_vec |-> <<<<2, 2>>>>,
       ref_ratio |-> 2, dxi0 |-> 1, has_overset |-> FALSE, pinned |-> NoPinned,
       lobc |-> [n \in 0..1 |-> Neumann2],
       hibc |-> [n \in 0..1 |-> Neumann2], robin |-> <<0, 1>>],
      \* two components: Robin at high x for component 0, Robin at low y and
      \* Dirichlet at high x for component 1
      [name |-> "two_comp_robin", ncomp |-> 2, num_amr_levels |-> 1,
       levels |-> OneLevel(Box(0, 0, 3, 1), 2), mg_coarsen_ratio_vec |-> <<<<2, 2>>>>,
       ref_ratio |-> 2, dxi0 |-> 1, has_overset |-> FALSE, pinned |-> NoPinned,
       lobc |-> [n \in 0..1 |-> IF n = 0 THEN Neumann2 ELSE <<"Neumann", "Robin">>],
       hibc |-> [n \in 0..1 |-> IF n = 0 THEN <<"Robin", "Neumann">>
                                ELSE <<"Dirichlet", "Neumann">>],
       robin |-> <<2, 1>>],
      \* semi-coarsening on AMR level 0, Dirichlet at low x
      [name |-> "semi", ncomp |-> 1, num_amr_levels |-> 1,
       levels |-> OneLevel(Box(0, 0, 3, 1), 2), mg_coarsen_ratio_vec |-> <<<<2, 1>>>>,
       ref_ratio |-> 2, dxi0 |-> 1, has_overset |-> FALSE, pinned |-> NoPinned,
       lobc |-> [n \in 0..0 |-> <<"Dirichlet", "Neumann">>],
       hibc |-> [n \in 0..0 |-> Neumann2], robin |-> <<0, 1>>],
      \* two AMR levels, refinement ratio 2, Robin at low x
      [name |-> "amr2", ncomp |-> 1, num_amr_levels |-> 2,
       levels |-> TwoLevels(Box(0, 0, 3, 1), 2, Box(0, 0, 7, 3), Box(0, 0, 3, 3), 1),
       mg_coarsen_ratio_vec |-> <<<<2, 2>>>>,
       ref_ratio |-> 2, dxi0 |-> 1, has_overset |-> FALSE, pinned |-> NoPinned,
       lobc |-> [n \in 0..0 |-> <<"Robin", "Neumann">>],
       hibc |-> [n \in 0..0 |-> Neumann2], robin |-> <<2, 1>>],
      \* two AMR levels, refinement ratio 4: the fine level has two
      \* relaxation levels
      [name |-> "amr4", ncomp |-> 1, num_amr_levels |-> 2,
       levels |-> TwoLevels(Box(0, 0, 3, 1), 1, Box(0, 0, 15, 7), Box(0, 0, 3, 3), 2),
       mg_coarsen_ratio_vec |-> <<>>,
       ref_ratio |-> 4, dxi0 |-> 1, has_overset |-> FALSE, pinned |-> NoPinned,
       lobc |-> [n \in 0..0 |-> Neumann2],
       hibc |-> [n \in 0..0 |-> Neumann2], robin |-> <<0, 1>>],
      \* one AMR level with an overset mask: the first column is pinned
      [name |-> "overset", ncomp |-> 1, num_amr_levels |-> 1,
       levels |-> OneLevel(Box(0, 0, 3, 1), 2), mg_coarsen_ratio_vec |-> <<<<2, 2>>>>,
       ref_ratio |-> 2, dxi0 |-> 1, has_overset |-> TRUE,
       pinned |-> [m \in 0..1 |-> IF m = 0 THEN {<<0, 0>>, <<0, 1>>} ELSE {<<0, 0>>}],
       lobc |-> [n \in 0..0 |-> Neumann2],
       hibc |-> [n \in 0..0 |-> Neumann2], robin |-> <<0, 1>>],
      \* an overset mask and semi-coarsening on AMR level 0
      [name |-> "overset_semi", ncomp |-> 1, num_amr_levels |-> 1,
       levels |-> OneLevel(Box(0, 0, 3, 1), 2), mg_coarsen_ratio_vec |-> <<<<2, 1>>>>,
       ref_ratio |-> 2, dxi0 |-> 1, has_overset |-> TRUE,
       pinned |-> [m \in 0..1 |-> {<<0, 0>>, <<0, 1>>}],
       lobc |-> [n \in 0..0 |-> Neumann2],
       hibc |-> [n \in 0..0 |-> Neumann2], robin |-> <<0, 1>>] }

\* The Robin (a, b) pairs and inverse cell sizes <<a, b, dxi0>> a scenario is
\* run with.
RobinChoices(base) ==
    IF base.name = "robin_1d"
    THEN {<<0, 1, 1>>, <<0, 1, 2>>, <<1, 1, 2>>, <<1, 0, 1>>}
    ELSE {<<base.robin[1], base.robin[2], base.dxi0>>}

\* getNComp()
NComp == scen.ncomp

Comps == 0..(NComp - 1)

AmrLevels == 0..(scen.num_amr_levels - 1)

\* m_num_mg_levels[amrlev]
m_num_mg_levels(amrlev) == scen.levels[amrlev].nmg

MgLevels(amrlev) == 0..(m_num_mg_levels(amrlev) - 1)

Dims == 0..1

\* line 181: the ratio between relaxation levels mglev-1 and mglev
CoarsenRatio(amrlev, mglev) ==
    IF amrlev > 0 THEN <<mg_coarsen_ratio, mg_coarsen_ratio>>
    ELSE scen.mg_coarsen_ratio_vec[mglev]

Coarsen(bx, r) == [lo |-> <<bx.lo[1] \div r[1], bx.lo[2] \div r[2]>>,
                   hi |-> <<bx.hi[1] \div r[1], bx.hi[2] \div r[2]>>]

\* m_grids[amrlev][mglev]: the cells of a relaxation level
RECURSIVE m_grids(_, _)
m_grids(amrlev, mglev) ==
    IF mglev = 0 THEN scen.levels[amrlev].bx
    ELSE Coarsen(m_grids(amrlev, mglev - 1), CoarsenRatio(amrlev, mglev))

\* amrex::convert(ba, IntVect::TheDimensionVector(idim)): the faces of a box
FaceBox(bx, idim) ==
    [lo |-> bx.lo,
     hi |-> IF idim = 0 THEN <<bx.hi[1] + 1, bx.hi[2]>> ELSE <<bx.hi[1], bx.hi[2] + 1>>]

\* m_geom[amrlev][0].InvCellSize(idim), the same in both directions
InvCellSize(amrlev) ==
    IF amrlev = 0 THEN scen.dxi0 ELSE scen.dxi0 * scen.ref_ratio

\* m_overset_mask[amrlev][mglev] is set
HasOverset(amrlev, mglev) == scen.has_overset

\* osm(i,j,k) of m_overset_mask[amrlev][mglev]: 0 at a pinned cell
Osm(amrlev, mglev, c) == IF c \in scen.pinned[mglev] THEN 0 ELSE 1

\* m_domain_covered[amrlev]
m_domain_covered(amrlev) == scen.levels[amrlev].bx = scen.levels[amrlev].domain

\* hasRobinBC()
hasRobinBC ==
    \E n \in Comps : \E d \in Dims :
        scen.lobc[n][d + 1] = "Robin" \/ scen.hibc[n][d + 1] = "Robin"

(***************************************************************************)
(* Field contents that callers hand in, and that freshly allocated fields  *)
(* may hold.  idim is 0 or 1 for a face field and 2 for a cell field.      *)
(***************************************************************************)

PatternValue(pat, idim, c, n) ==
    IF pat = "ones" THEN ROne
    ELSE IF pat = "graded" THEN RInt(1 + c[1] + 3 * c[2] + 7 * n + idim)
    ELSE IF pat = "balanced" THEN (IF (c[1] + c[2]) % 2 = 0 THEN ROne ELSE RInt(0 - 1))
    ELSE RZero

\* A cell field of one component over a box.
CellField(bx, pat) == [c \in Pts(bx) |-> PatternValue(pat, 2, c, 0)]

\* A face field of nc components over the idim-faces of a box.
FaceField(bx, idim, nc, pat) ==
    [c \in Pts(FaceBox(bx, idim)) |-> [n \in 0..(nc - 1) |-> PatternValue(pat, idim, c, n)]]

(***************************************************************************)
(* MLABecLaplacian: the setters (lines 85-155).  Every member function is  *)
(* a function from the object s to the object after the call.              *)
(***************************************************************************)

\* MultiFab::setVal on a cell field, and on every component of a face field
SetValCell(f, v) == [c \in DOMAIN f |-> v]

SetValFace(f, v) == [c \in DOMAIN f |-> [n \in DOMAIN f[c] |-> v]]

\* MultiFab::Copy(dst, src, srccomp, dstcomp, 1, 0)
CopyComp(dst, src, srccomp, dstcomp) ==
    [c \in DOMAIN dst |-> [dst[c] EXCEPT ![dstcomp] = src[c][srccomp]]]

\* AMREX_ALWAYS_ASSERT failed: amrex::Abort
Aborted(s) == [s EXCEPT !.status = "aborted"]

\* lines 85-97
setScalars(s, a, b) ==
    LET s1 == [s EXCEPT !.m_a_scalar = a, !.m_b_scalar = b]
    IN  IF a = RZero
        THEN [s1 EXCEPT !.m_a_coeffs =
                 [amrlev \in AmrLevels |->
                     [s.m_a_coeffs[amrlev] EXCEPT ![0] = SetValCell(@, RZero)]]]
        ELSE s1

\* lines 99-106; alpha is [nComp, fab]
setACoeffs(s, amrlev, alpha) ==
    IF alpha.nComp # 1 THEN Aborted(s)
    ELSE [s EXCEPT !.m_a_coeffs[amrlev][0] = [c \in DOMAIN @ |-> alpha.fab[c][0]],
                   !.m_needs_update = TRUE]

\* lines 108-113
setACoeffsScalar(s, amrlev, alpha) ==
    [s EXCEPT !.m_a_coeffs[amrlev][0] = SetValCell(@, alpha),
              !.m_needs_update = TRUE]

\* The icomp loops of lines 123-125 (bcast FALSE) and 129-131 (bcast TRUE).
RECURSIVE CopyLoop(_, _, _, _)
CopyLoop(dst, src, icomp, bcast) ==
    IF icomp >= NComp THEN dst
    ELSE CopyLoop(CopyComp(dst, src, IF bcast THEN 0 ELSE icomp, icomp),
                  src, icomp + 1, bcast)

\* lines 115-134; beta[idim] is [nComp, fab]
setBCoeffs(s, amrlev, beta) ==
    IF ~(beta[0].nComp = 1 \/ beta[0].nComp = NComp) THEN Aborted(s)
    ELSE [s EXCEPT !.m_b_coeffs[amrlev][0] =
                       [idim \in Dims |->
                           CopyLoop(@[idim], beta[idim].fab, 0, beta[0].nComp # NComp)],
                   !.m_needs_update = TRUE]

\* lines 136-143
setBCoeffsScalar(s, amrlev, beta) ==
    [s EXCEPT !.m_b_coeffs[amrlev][0] = [idim \in Dims |-> SetValFace(@[idim], beta)],
              !.m_needs_update = TRUE]

\* The icomp loop of lines 150-152: setVal writes every component.
RECURSIVE SetValLoop(_, _, _)
SetValLoop(dst, beta, icomp) ==
    IF icomp >= NComp THEN dst
    ELSE SetValLoop(SetValFace(dst, beta[icomp]), beta, icomp + 1)

\* lines 145-155
setBCoeffsVector(s, amrlev, beta) ==
    [s EXCEPT !.m_b_coeffs[amrlev][0] = [idim \in Dims |-> SetValLoop(@[idim], beta, 0)],
              !.m_needs_update = TRUE]

(***************************************************************************)
(* Restriction (lines 157-255).  amrex::average_down takes the mean of the *)
(* fine cells of a coarse cell; amrex::average_down_faces the mean of the  *)
(* fine faces that lie on a coarse face.  Both leave a coarse value alone  *)
(* where the fine field does not cover it.                                 *)
(***************************************************************************)

FineCellsOf(c, r) ==
    {<<r[1] * c[1] + ii, r[2] * c[2] + jj>> : ii \in 0..(r[1] - 1), jj \in 0..(r[2] - 1)}

average_down(fine, crse, r) ==
    [c \in DOMAIN crse |->
        IF FineCellsOf(c, r) \subseteq DOMAIN fine
        THEN RMul(Rat(1, r[1] * r[2]), RSum(FineCellsOf(c, r), fine))
        ELSE crse[c]]

\* The fine idim-faces on the coarse idim-face c.
FineFacesOn(c, r, idim) ==
    IF idim = 0 THEN {<<r[1] * c[1], r[2] * c[2] + jj>> : jj \in 0..(r[2] - 1)}
    ELSE {<<r[1] * c[1] + ii, r[2] * c[2]>> : ii \in 0..(r[1] - 1)}

average_down_faces(fine, crse, r, idim) ==
    [c \in DOMAIN crse |->
        IF FineFacesOn(c, r, idim) \subseteq DOMAIN fine
        THEN [n \in DOMAIN crse[c] |->
                 RMul(Rat(1, Cardinality(FineFacesOn(c, r, idim))),
                      RSum(FineFacesOn(c, r, idim),
                           [f \in FineFacesOn(c, r, idim) |-> fine[f][n]]))]
        ELSE crse[c]]

\* overset_rescale_bcoef_x / _y: a face between a pinned and a free cell
overset_rescale_bcoef(b, amrlev, mglev, idim, osfac) ==
    [c \in DOMAIN b |->
        LET below == IF idim = 0 THEN <<c[1] - 1, c[2]>> ELSE <<c[1], c[2] - 1>>
        IN  IF Osm(amrlev, mglev, below) + Osm(amrlev, mglev, c) = 1
            THEN [n \in DOMAIN b[c] |-> RMul(b[c][n], osfac)]
            ELSE b[c]]

\* 1 << mglev
RECURSIVE Pow2(_)
Pow2(n) == IF n = 0 THEN 1 ELSE 2 * Pow2(n - 1)

\* The first loop of averageDownCoeffsSameAmrLevel (lines 179-200); ab is
\* [a, b], the fields of one AMR level.
RECURSIVE SameLevelAverage(_, _, _, _)
SameLevelAverage(ab, amrlev, mglev, a_scalar) ==
    IF mglev >= m_num_mg_levels(amrlev) THEN ab
    ELSE LET ratio == CoarsenRatio(amrlev, mglev)
             a1 == IF a_scalar = RZero
                   THEN SetValCell(ab.a[mglev], RZero)
                   ELSE average_down(ab.a[mglev - 1], ab.a[mglev], ratio)
             b1 == [idim \in Dims |->
                       average_down_faces(ab.b[mglev - 1][idim], ab.b[mglev][idim],
                                          ratio, idim)]
         IN  SameLevelAverage([a |-> [ab.a EXCEPT ![mglev] = a1],
                               b |-> [ab.b EXCEPT ![mglev] = b1]],
                              amrlev, mglev + 1, a_scalar)

\* The second loop (lines 202-235).
RECURSIVE SameLevelRescale(_, _, _)
SameLevelRescale(b, amrlev, mglev) ==
    IF mglev >= m_num_mg_levels(amrlev) THEN b
    ELSE IF HasOverset(amrlev, mglev)
         THEN LET fac   == RInt(Pow2(mglev))
                  osfac == RDiv(RMul(RInt(2), fac), RAdd(fac, ROne))
              IN  SameLevelRescale(
                      [b EXCEPT ![mglev] =
                          [idim \in Dims |->
                              overset_rescale_bcoef(@[idim], amrlev, mglev, idim, osfac)]],
                      amrlev, mglev + 1)
         ELSE SameLevelRescale(b, amrlev, mglev + 1)

\* lines 174-236
averageDownCoeffsSameAmrLevel(s, amrlev) ==
    LET ab == SameLevelAverage([a |-> s.m_a_coeffs[amrlev], b |-> s.m_b_coeffs[amrlev]],
                               amrlev, 1, s.m_a_scalar)
    IN  [s EXCEPT !.m_a_coeffs[amrlev] = ab.a,
                  !.m_b_coeffs[amrlev] = SameLevelRescale(ab.b, amrlev, 1)]

\* .back() of the fields of an AMR level
Back(amrlev) == m_num_mg_levels(amrlev) - 1

\* As lines 241-242, with .front() in place of .back().
FineOfFront(amrlev) == 0

\* lines 241-242: the fine fields that are restricted to the coarser AMR level
FineOf(amrlev) == Back(amrlev)

\* As averageDownCoeffsToCoarseAmrLevel, without the test of line 246.
averageDownCoeffsToCoarseAlways(s, flev) ==
    LET ratio == <<mg_coarsen_ratio, mg_coarsen_ratio>>
        fine_a == s.m_a_coeffs[flev][FineOf(flev)]
        fine_b == s.m_b_coeffs[flev][FineOf(flev)]
    IN  [s EXCEPT !.m_a_coeffs[flev - 1][0] = average_down(fine_a, @, ratio),
                  !.m_b_coeffs[flev - 1][0] =
                      [idim \in Dims |-> average_down_faces(fine_b[idim], @[idim], ratio, idim)]]

\* lines 238-255
averageDownCoeffsToCoarseAmrLevel(s, flev) ==
    LET ratio == <<mg_coarsen_ratio, mg_coarsen_ratio>>
        fine_a == s.m_a_coeffs[flev][FineOf(flev)]
        fine_b == s.m_b_coeffs[flev][FineOf(flev)]
    IN  [s EXCEPT !.m_a_coeffs[flev - 1][0] =
                      IF s.m_a_scalar # RZero THEN average_down(fine_a, @, ratio) ELSE @,
                  !.m_b_coeffs[flev - 1][0] =
                      [idim \in Dims |-> average_down_faces(fine_b[idim], @[idim], ratio, idim)]]

\* The loop of lines 162-169.
RECURSIVE AmrLevelLoop(_, _)
AmrLevelLoop(s, amrlev) ==
    IF amrlev <= 0 THEN s
    ELSE AmrLevelLoop(
             averageDownCoeffsToCoarseAmrLevel(averageDownCoeffsSameAmrLevel(s, amrlev),
                                               amrlev),
             amrlev - 1)

\* lines 157-172
averageDownCoeffs(s) ==
    averageDownCoeffsSameAmrLevel(AmrLevelLoop(s, scen.num_amr_levels - 1), 0)

(***************************************************************************)
(* The Robin terms (lines 300-395).  A sweep entry <<idim, icomp, side>>   *)
(* is one of the two "if" blocks of one (idim, icomp) iteration, in the    *)
(* order the loops run them.                                               *)
(***************************************************************************)

RobinSweep ==
    [k \in 1..(2 * NComp * 2) |->
        <<(k - 1) \div (2 * NComp), ((k - 1) \div 2) % NComp,
          IF (k - 1) % 2 = 0 THEN "lo" ELSE "hi">>]

\* lines 328-335 and 363: the block of a sweep entry runs on AMR level amrlev
RobinBlockRuns(amrlev, e) ==
    LET idim   == e[1]
        vbx    == scen.levels[amrlev].bx
        domain == scen.levels[amrlev].domain
    IN  IF e[3] = "lo"
        THEN scen.lobc[e[2]][idim + 1] = "Robin" /\ vbx.lo[idim + 1] <= domain.lo[idim + 1]
        ELSE scen.hibc[e[2]][idim + 1] = "Robin" /\ vbx.hi[idim + 1] >= domain.hi[idim + 1]

\* The cells of the valid box next to the boundary of a sweep entry.
RobinCells(amrlev, e) ==
    LET vbx == scen.levels[amrlev].bx
    IN  {c \in Pts(vbx) :
            c[e[1] + 1] = IF e[3] = "lo" THEN vbx.lo[e[1] + 1] ELSE vbx.hi[e[1] + 1]}

\* The boundary face of a boundary cell: bfab(i+1,j,k) seen from the cell
\* below the low boundary, bfab(i,j,k) of the cell above the high boundary.
RobinFace(c, e) ==
    IF e[3] = "lo" THEN c
    ELSE IF e[1] = 0 THEN <<c[1] + 1, c[2]>> ELSE <<c[1], c[2] + 1>>

\* As RobinB, with 0.5 in place of a*0.5.
RobinBWithoutA(a, b, dxi) ==
    RDiv(RSub(RMul(b, dxi), RHalf), RAdd(RMul(b, dxi), RHalf))

\* lines 341-342: B of u_ghost = A + B u
RobinB(a, b, dxi) ==
    RDiv(RSub(RMul(b, dxi), RMul(a, RHalf)), RAdd(RMul(b, dxi), RMul(a, RHalf)))

\* One block, lines 337-361 or 365-389, for a component that afab has.
RobinBlock(afab, bfab, e, amrlev, bovera) ==
    LET dxi == RInt(InvCellSize(amrlev))
        fac == RMul(bovera, RMul(dxi, dxi))
        B   == RobinB(RInt(scen.robin[1]), RInt(scen.robin[2]), dxi)
    IN  [c \in DOMAIN afab |->
            IF c \in RobinCells(amrlev, e)
            THEN RAdd(afab[c], RMul(RMul(fac, bfab[e[1]][RobinFace(c, e)][e[2]]),
                                    RSub(ROne, B)))
            ELSE afab[c]]

\* afab has one component (line 69): a block of a component icomp > 0 writes
\* outside afab.
RobinWritesOutside(amrlev, e) == e[2] > 0 /\ RobinBlockRuns(amrlev, e)

\* Some block of applyRobinBCTermsCoeffs writes outside afab.
RobinWritesOutsideAfab ==
    /\ hasRobinBC
    /\ \E amrlev \in AmrLevels : \E k \in DOMAIN RobinSweep :
           RobinWritesOutside(amrlev, RobinSweep[k])

\* The idim and icomp loops of lines 326-392 on one AMR level.
RECURSIVE RobinLoop(_, _, _, _, _)
RobinLoop(afab, bfab, amrlev, bovera, k) ==
    IF k > Len(RobinSweep) THEN afab
    ELSE LET e == RobinSweep[k]
         IN  RobinLoop(IF RobinBlockRuns(amrlev, e) /\ e[2] = 0
                       THEN RobinBlock(afab, bfab, e, amrlev, bovera)
                       ELSE afab,
                       bfab, amrlev, bovera, k + 1)

\* lines 300-395
applyRobinBCTermsCoeffs(s) ==
    IF ~hasRobinBC THEN s
    ELSE LET a_scalar == IF s.m_a_scalar = RZero THEN ROne ELSE s.m_a_scalar
             bovera   == RDiv(s.m_b_scalar, a_scalar)
         IN  [s EXCEPT !.m_a_scalar = a_scalar,
                       !.m_a_coeffs =
                           [amrlev \in AmrLevels |->
                               [s.m_a_coeffs[amrlev] EXCEPT ![0] =
                                   RobinLoop(@, s.m_b_coeffs[amrlev][0], amrlev, bovera, 1)]],
                       !.oob = @ \/ RobinWritesOutsideAfab]

(***************************************************************************)
(* The refresh (lines 397-438 and 741-778)                                 *)
(***************************************************************************)

\* lines 414-416: std::find over m_lobc[0] and m_hibc[0]
NoDirichlet ==
    \A d \in Dims : scen.lobc[0][d + 1] # "Dirichlet" /\ scen.hibc[0][d + 1] # "Dirichlet"

\* MultiFab::sum and MultiFab::norm0
FieldSum(f) == RSum(DOMAIN f, f)

RECURSIVE FieldNorm0Over(_, _)
FieldNorm0Over(S, f) ==
    IF S = {} THEN RZero
    ELSE LET c == CHOOSE c \in S : TRUE IN RMax(RAbs(f[c]), FieldNorm0Over(S \ {c}, f))

FieldNorm0(f) == FieldNorm0Over(DOMAIN f, f)

\* lines 416-434
LevelIsSingular(s, alev) ==
    /\ NoDirichlet
    /\ m_domain_covered(alev) /\ ~HasOverset(alev, 0)
    /\ IF s.m_a_scalar = RZero THEN TRUE
       ELSE LeTimesEpsilon(FieldSum(s.m_a_coeffs[alev][Back(alev)]),
                           FieldNorm0(s.m_a_coeffs[alev][Back(alev)]))

\* As SingularAndClean, without line 437.
SingularFlagsOnly(s) ==
    [s EXCEPT !.m_is_singular = [alev \in AmrLevels |-> LevelIsSingular(s, alev)]]

\* lines 412-437
SingularAndClean(s) ==
    [s EXCEPT !.m_is_singular = [alev \in AmrLevels |-> LevelIsSingular(s, alev)],
              !.m_needs_update = FALSE]

\* lines 397-438 (the metric terms are the identity in Cartesian coordinates)
prepareForSolve(s) == SingularAndClean(averageDownCoeffs(applyRobinBCTermsCoeffs(s)))

\* lines 741-778
update(s) == SingularAndClean(averageDownCoeffs(s))

(***************************************************************************)
(* The const member functions (lines 440-739) read the coefficients of one *)
(* level and hand them to a kernel; which kernel is what the model keeps.  *)
(***************************************************************************)

\* lines 469-482
FapplyKernel(amrlev, mglev) ==
    IF HasOverset(amrlev, mglev) THEN "mlabeclap_adotx_os" ELSE "mlabeclap_adotx"

\* lines 528-531
regular_coarsening(amrlev, mglev) ==
    IF amrlev = 0 /\ mglev > 0
    THEN scen.mg_coarsen_ratio_vec[mglev] = <<mg_coarsen_ratio, mg_coarsen_ratio>>
    ELSE TRUE

\* lines 611-650
FsmoothKernel(amrlev, mglev) ==
    IF HasOverset(amrlev, mglev) THEN "abec_gsrb_os"
    ELSE IF regular_coarsening(amrlev, mglev) THEN "abec_gsrb"
    ELSE "abec_gsrb_with_line_solve"

\* lines 686-738
FFluxKernel(face_only) ==
    IF face_only THEN "mlabeclap_flux_xface" ELSE "mlabeclap_flux_x"

(***************************************************************************)
(* The calls made on the object, and the state machine                     *)
(***************************************************************************)

\* how many non-const member functions are called on one object
MaxCoefCalls == 2

ScalarPairs == {<<RZero, ROne>>, <<RInt(2), RInt(3)>>}

\* The cell fields handed to setACoeffs: [nComp, pat]
AlphaInputs == {[nComp |-> 1, pat |-> "graded"], [nComp |-> 1, pat |-> "balanced"],
                [nComp |-> 2, pat |-> "graded"]}

AlphaField(amrlev, in) ==
    [nComp |-> in.nComp,
     fab |-> [c \in Pts(m_grids(amrlev, 0)) |->
                 [n \in 0..(in.nComp - 1) |-> PatternValue(in.pat, 2, c, n)]]]

AlphaScalars == {RInt(3), RInt(0 - 1)}

\* The face fields handed to setBCoeffs have 1, N or 3 components in every
\* direction, or 1 component in x and 3 in y.
BetaInputs ==
    {[nComp |-> [idim \in Dims |-> k], pat |-> "graded"] : k \in {1, NComp, 3}}
        \cup {[nComp |-> [idim \in Dims |-> IF idim = 0 THEN 1 ELSE 3], pat |-> "graded"]}

BetaFields(amrlev, in) ==
    [idim \in Dims |->
        [nComp |-> in.nComp[idim],
         fab |-> FaceField(m_grids(amrlev, 0), idim, in.nComp[idim], in.pat)]]

BetaScalars == {RInt(2)}

\* The Vector<Real> handed to setBCoeffs: beta[icomp] = icomp + 1
BetaVector == [n \in Comps |-> RInt(n + 1)]

\* What freshly defined fields and the scalars may hold.
InitContents ==
    {[pat |-> "ones", a |-> ROne, b |-> ROne],
     [pat |-> "graded", a |-> ROne, b |-> ROne],
     [pat |-> "graded", a |-> RZero, b |-> ROne]}

CoefCall(op, amrlev, mglev, arg) ==
    [op |-> op, amrlev |-> amrlev, mglev |-> mglev, arg |-> arg]

\* No member function is running.
NoCall == CoefCall("none", 0 - 1, 0 - 1, "")

\* The constructors and define_ab_coeffs (lines 8-80): the fields are
\* defined, not filled.
CoefInit ==
    /\ HypreIdle
    /\ \E base \in CoefScenarios :
           \E r \in RobinChoices(base) :
               scen = [base EXCEPT !.robin = <<r[1], r[2]>>, !.dxi0 = r[3]]
    /\ \E init \in InitContents :
           abec = [status |-> "ok",
                   m_a_scalar |-> init.a, m_b_scalar |-> init.b,
                   m_a_coeffs |->
                       [amrlev \in AmrLevels |->
                           [mglev \in MgLevels(amrlev) |->
                               CellField(m_grids(amrlev, mglev), init.pat)]],
                   m_b_coeffs |->
                       [amrlev \in AmrLevels |->
                           [mglev \in MgLevels(amrlev) |->
                               [idim \in Dims |->
                                   FaceField(m_grids(amrlev, mglev), idim, NComp, init.pat)]]],
                   m_is_singular |-> <<>>,
                   m_needs_update |-> TRUE,
                   oob |-> FALSE]
    /\ last_call = CoefCall("define", 0 - 1, 0 - 1, "")
    /\ in_call = NoCall
    /\ ncalls = 0

\* A non-const member function is called and returns s.
Mutate(s, call) ==
    /\ abec' = s
    /\ last_call' = call
    /\ ncalls' = ncalls + 1
    /\ UNCHANGED <<scen, in_call, hypre_vars>>

\* The calls on one object follow each other.
MayCall == abec.status = "ok" /\ in_call = NoCall

MayMutate == MayCall /\ ncalls < MaxCoefCalls

\* A write outside afab either goes unnoticed or ends the process.
AfterOutsideWrite(s) ==
    IF RobinWritesOutsideAfab THEN {s, [s EXCEPT !.status = "crashed"]} ELSE {s}

SetScalars ==
    /\ MayMutate
    /\ \E ab \in ScalarPairs :
           Mutate(setScalars(abec, ab[1], ab[2]), CoefCall("setScalars", 0 - 1, 0 - 1, ab))

SetACoeffs ==
    /\ MayMutate
    /\ \E amrlev \in AmrLevels : \E in \in AlphaInputs :
           Mutate(setACoeffs(abec, amrlev, AlphaField(amrlev, in)),
                  CoefCall("setACoeffs", amrlev, 0, in))

SetACoeffsScalar ==
    /\ MayMutate
    /\ \E amrlev \in AmrLevels : \E alpha \in AlphaScalars :
           Mutate(setACoeffsScalar(abec, amrlev, alpha),
                  CoefCall("setACoeffsScalar", amrlev, 0, alpha))

SetBCoeffs ==
    /\ MayMutate
    /\ \E amrlev \in AmrLevels : \E in \in BetaInputs :
           Mutate(setBCoeffs(abec, amrlev, BetaFields(amrlev, in)),
                  CoefCall("setBCoeffs", amrlev, 0, in))

SetBCoeffsScalar ==
    /\ MayMutate
    /\ \E amrlev \in AmrLevels : \E beta \in BetaScalars :
           Mutate(setBCoeffsScalar(abec, amrlev, beta),
                  CoefCall("setBCoeffsScalar", amrlev, 0, beta))

SetBCoeffsVector ==
    /\ MayMutate
    /\ \E amrlev \in AmrLevels :
           Mutate(setBCoeffsVector(abec, amrlev, BetaVector),
                  CoefCall("setBCoeffsVector", amrlev, 0, BetaVector))

AverageDownCoeffs ==
    /\ MayMutate
    /\ Mutate(averageDownCoeffs(abec), CoefCall("averageDownCoeffs", 0 - 1, 0 - 1, ""))

ApplyRobinBCTermsCoeffs ==
    /\ MayMutate
    /\ \E s \in AfterOutsideWrite(applyRobinBCTermsCoeffs(abec)) :
           Mutate(IF s.status = "ok" THEN s ELSE [abec EXCEPT !.status = "crashed", !.oob = TRUE],
                  CoefCall("applyRobinBCTermsCoeffs", 0 - 1, 0 - 1, ""))

PrepareForSolve ==
    /\ MayMutate
    /\ \E s \in AfterOutsideWrite(prepareForSolve(abec)) :
           Mutate(IF s.status = "ok" THEN s ELSE [abec EXCEPT !.status = "crashed", !.oob = TRUE],
                  CoefCall("prepareForSolve", 0 - 1, 0 - 1, ""))

Update ==
    /\ MayMutate
    /\ Mutate(update(abec), CoefCall("update", 0 - 1, 0 - 1, ""))

\* A const member function is called on one level and launches its kernel.
Observe(call) ==
    /\ MayCall
    /\ in_call' = call
    /\ UNCHANGED <<scen, abec, last_call, ncalls, hypre_vars>>

Fapply ==
    \E amrlev \in AmrLevels : \E mglev \in MgLevels(amrlev) :
        Observe(CoefCall("Fapply", amrlev, mglev, FapplyKernel(amrlev, mglev)))

Fsmooth ==
    \E amrlev \in AmrLevels : \E mglev \in MgLevels(amrlev) :
        Observe(CoefCall("Fsmooth", amrlev, mglev, FsmoothKernel(amrlev, mglev)))

Normalize ==
    \E amrlev \in AmrLevels :
        Observe(CoefCall("normalize", amrlev, Back(amrlev), "mlabeclap_normalize"))

FFlux ==
    \E face_only \in BOOLEAN :
        Observe(CoefCall("FFlux", scen.num_amr_levels - 1, 0, FFluxKernel(face_only)))

\* The running const member function returns.
Return ==
    /\ in_call # NoCall
    /\ in_call' = NoCall
    /\ UNCHANGED <<scen, abec, last_call, ncalls, hypre_vars>>

CoefNext ==
    \/ SetScalars
    \/ SetACoeffs
    \/ SetACoeffsScalar
    \/ SetBCoeffs
    \/ SetBCoeffsScalar
    \/ SetBCoeffsVector
    \/ AverageDownCoeffs
    \/ ApplyRobinBCTermsCoeffs
    \/ PrepareForSolve
    \/ Update
    \/ Fapply
    \/ Fsmooth
    \/ Normalize
    \/ FFlux
    \/ Return

SpecCoef == CoefInit /\ [][CoefNext]_vars

(***************************************************************************)
(* Properties of the coefficient store                                     *)
(***************************************************************************)

\* A non-const member function named in ops has just returned normally.
Returned(ops) == last_call.op \in ops /\ abec.status = "ok"

\* The step of a non-const member function named in ops that returns normally.
CallStep(ops) ==
    ncalls' = ncalls + 1 /\ last_call'.op \in ops /\ abec'.status = "ok"

RestrictingOps == {"averageDownCoeffs", "prepareForSolve", "update"}

\* The mean of component n of the face field fine over the faces S.
FaceMean(fine, S, n) ==
    RDiv(RSum(S, [f \in S |-> fine[f][n]]), RInt(Cardinality(S)))

\* Every face of crse that fine covers holds the mean of the fine faces on it.
IsFaceAverage(crse, fine, r, idim) ==
    \A c \in DOMAIN crse :
        FineFacesOn(c, r, idim) \subseteq DOMAIN fine =>
            \A n \in Comps : crse[c][n] = FaceMean(fine, FineFacesOn(c, r, idim), n)

\* The faces of relaxation level 0 of AMR level amrlev on a face of relaxation
\* level 0 of AMR level amrlev - 1.
RefinedFacesOn(c, idim) ==
    FineFacesOn(c, <<scen.ref_ratio, scen.ref_ratio>>, idim)

UniformB(amrlev, v) ==
    \A idim \in Dims : \A c \in DOMAIN abec.m_b_coeffs[amrlev][0][idim] :
        \A n \in Comps : abec.m_b_coeffs[amrlev][0][idim][c][n] = v

\* C5: after averageDownCoeffs (alone or inside a refresh), on levels without
\* an overset mask, the face coefficient of every relaxation level mglev >= 1
\* is the mean of the faces of relaxation level mglev - 1 on each coarse face,
\* and the face coefficient of relaxation level 0 of the next-coarser AMR
\* level is, under the fine region, the mean of the fine AMR level's coarsest
\* faces on it and so of the fine AMR level's finest faces on it, for the
\* ratios 2, (2,1) and 4; a uniform fine B = 2 on the two-level ratio-2
\* hierarchy gives a coarse B of 2 under the fine region.
C5_RestrictionIsFaceAverage ==
    Returned(RestrictingOps) =>
        /\ \A amrlev \in AmrLevels : \A mglev \in MgLevels(amrlev) : \A idim \in Dims :
               mglev >= 1 /\ ~HasOverset(amrlev, mglev) =>
                   IsFaceAverage(abec.m_b_coeffs[amrlev][mglev][idim],
                                 abec.m_b_coeffs[amrlev][mglev - 1][idim],
                                 CoarsenRatio(amrlev, mglev), idim)
        /\ \A amrlev \in AmrLevels : \A idim \in Dims :
               amrlev >= 1 /\ ~HasOverset(amrlev, Back(amrlev)) =>
                   /\ IsFaceAverage(abec.m_b_coeffs[amrlev - 1][0][idim],
                                    abec.m_b_coeffs[amrlev][Back(amrlev)][idim],
                                    <<mg_coarsen_ratio, mg_coarsen_ratio>>, idim)
                   /\ \A c \in DOMAIN abec.m_b_coeffs[amrlev - 1][0][idim] :
                          /\ FineFacesOn(c, <<mg_coarsen_ratio, mg_coarsen_ratio>>, idim)
                                 \subseteq DOMAIN abec.m_b_coeffs[amrlev][Back(amrlev)][idim]
                          /\ RefinedFacesOn(c, idim)
                                 \subseteq DOMAIN abec.m_b_coeffs[amrlev][0][idim]
                          => \A n \in Comps :
                                 abec.m_b_coeffs[amrlev - 1][0][idim][c][n] =
                                     FaceMean(abec.m_b_coeffs[amrlev][0][idim],
                                              RefinedFacesOn(c, idim), n)
        /\ scen.name = "amr2" /\ UniformB(1, RInt(2)) =>
               \A idim \in Dims : \A c \in DOMAIN abec.m_b_coeffs[0][0][idim] :
                   RefinedFacesOn(c, idim) \subseteq DOMAIN abec.m_b_coeffs[1][0][idim]
                       => abec.m_b_coeffs[0][0][idim][c][0] = RInt(2)

\* The two-level ratio-2 hierarchy after averageDownCoeffs with a uniform fine
\* B = 2: the coarse face (0,0) under the fine region holds 2, the coarse face
\* (4,0) outside of it does not.
C5_Witness ==
    /\ Returned({"averageDownCoeffs"})
    /\ scen.name = "amr2"
    /\ UniformB(1, RInt(2))
    /\ abec.m_b_coeffs[0][0][0][<<0, 0>>][0] = RInt(2)
    /\ abec.m_b_coeffs[0][0][0][<<4, 0>>][0] # RInt(2)

\* The cells next to a boundary with a Robin condition for component 0.
RobinBoundaryCells(amrlev) ==
    UNION {RobinCells(amrlev, RobinSweep[k]) :
               k \in {j \in DOMAIN RobinSweep :
                          RobinSweep[j][2] = 0 /\ RobinBlockRuns(amrlev, RobinSweep[j])}}

\* C6: with Robin a = 0 and b # 0, applyRobinBCTermsCoeffs leaves the A
\* coefficient of every cell next to a Robin boundary (and of every other
\* cell) as it was, for every cell size, face coefficient and scalars; in the
\* row of 8 cells with a_scalar = b_scalar = 1, A = 1, B = 1 and Robin a = 0,
\* b = 1 at high x, A of the last cell is 1 afterwards.
C6_NeumannRobinKeepsDiagonal ==
    [][CallStep({"applyRobinBCTermsCoeffs"}) /\ scen.robin[1] = 0 /\ scen.robin[2] # 0
           => /\ \A amrlev \in AmrLevels : \A c \in RobinBoundaryCells(amrlev) :
                     abec'.m_a_coeffs[amrlev][0][c] = abec.m_a_coeffs[amrlev][0][c]
              /\ abec'.m_a_coeffs = abec.m_a_coeffs
              /\ /\ scen.name = "robin_1d"
                 /\ abec.m_a_scalar = ROne /\ abec.m_b_scalar = ROne
                 /\ abec.m_a_coeffs[0][0][<<7, 0>>] = ROne
                 /\ abec.m_b_coeffs[0][0][0][<<8, 0>>][0] = ROne
                 => abec'.m_a_coeffs[0][0][<<7, 0>>] = ROne]_vars

\* Scenario A after applyRobinBCTermsCoeffs: the last cell is next to the
\* Robin boundary and its A is 1.
C6_Witness ==
    /\ Returned({"applyRobinBCTermsCoeffs"})
    /\ scen.name = "robin_1d" /\ scen.robin = <<0, 1>>
    /\ <<7, 0>> \in RobinBoundaryCells(0)
    /\ abec.m_a_scalar = ROne /\ abec.m_b_scalar = ROne
    /\ abec.m_b_coeffs[0][0][0][<<8, 0>>][0] = ROne
    /\ abec.m_a_coeffs[0][0][<<7, 0>>] = ROne

CoefficientSetters ==
    {"setACoeffs", "setACoeffsScalar", "setBCoeffs", "setBCoeffsScalar", "setBCoeffsVector"}

Refreshes == {"prepareForSolve", "update"}

\* C8: every coefficient setter that returns leaves m_needs_update true,
\* whatever it was; prepareForSolve and update leave it false; Fapply,
\* normalize, Fsmooth and FFlux, from their call to their return, leave it as
\* it was.
C8_DirtyCleanMachine ==
    [][/\ CallStep(CoefficientSetters) => abec'.m_needs_update
       /\ CallStep(Refreshes) => ~abec'.m_needs_update
       /\ in_call' # in_call => abec'.m_needs_update = abec.m_needs_update]_vars

\* A setter has returned on a store that a refresh had left Clean (only a
\* refresh fills m_is_singular), and the store is Dirty.
C8_Witness ==
    /\ Returned({"setBCoeffs"})
    /\ abec.m_is_singular # <<>>
    /\ abec.m_needs_update

\* C9: Fapply and Fsmooth, called after a setter with no refresh in between,
\* never return normally while m_needs_update is true.
C9_AsStated ==
    [][~(/\ in_call.op \in {"Fapply", "Fsmooth"}
         /\ in_call' = NoCall
         /\ Returned(CoefficientSetters)
         /\ abec.m_needs_update)]_vars

\* The value that the input of the last setBCoeffs call designates for
\* component n of the idim-face c.
DesignatedB(idim, c, n) ==
    IF last_call.op = "setBCoeffs"
    THEN PatternValue(last_call.arg.pat, idim, c,
                      IF last_call.arg.nComp[idim] = 1 THEN 0 ELSE n)
    ELSE IF last_call.op = "setBCoeffsScalar" THEN last_call.arg
    ELSE last_call.arg[n]

\* C10: after any setBCoeffs overload on AMR level l, every component of the
\* relaxation level 0 face coefficient of level l holds, in every direction,
\* the value that the input designates for it.
C10_AsStated ==
    /\ Returned({"setBCoeffs", "setBCoeffsScalar", "setBCoeffsVector"})
    /\ last_call.op = "setBCoeffs" => \A idim \in Dims : last_call.arg.nComp[idim] \in {1, NComp}
    =>
        \A idim \in Dims : \A c \in DOMAIN abec.m_b_coeffs[last_call.amrlev][0][idim] :
            \A n \in Comps :
                abec.m_b_coeffs[last_call.amrlev][0][idim][c][n] = DesignatedB(idim, c, n)

\* The coefficient values and the dirty flag are what they were.
StoreUntouched ==
    /\ abec'.m_a_coeffs = abec.m_a_coeffs
    /\ abec'.m_b_coeffs = abec.m_b_coeffs
    /\ abec'.m_needs_update = abec.m_needs_update

\* The step of a call of op, returning or not.
CallOf(op) == ncalls' = ncalls + 1 /\ last_call'.op = op

\* C11: setACoeffs with a field of other than 1 component aborts, setBCoeffs
\* with per-direction fields aborts whenever the field of some direction has
\* neither 1 nor N components, and an aborted setter leaves every coefficient
\* value and the dirty flag as they were.
C11_AsStated ==
    [][/\ CallOf("setACoeffs") /\ last_call'.arg.nComp # 1
           => abec'.status = "aborted" /\ StoreUntouched
       /\ CallOf("setBCoeffs") /\ (\E idim \in Dims : last_call'.arg.nComp[idim] \notin {1, NComp})
           => abec'.status = "aborted" /\ StoreUntouched]_vars

\* No side of any direction has a Dirichlet condition for any component.
NoDirichletAnywhere ==
    \A n \in Comps : \A d \in Dims :
        scen.lobc[n][d + 1] # "Dirichlet" /\ scen.hibc[n][d + 1] # "Dirichlet"

\* |sum| <= 1e-12 * max|A| over the relaxation level 0 A field of a level.
SumNegligible(alev) ==
    LeTimesEpsilon(RAbs(FieldSum(abec.m_a_coeffs[alev][0])),
                   FieldNorm0(abec.m_a_coeffs[alev][0]))

\* C12: after prepareForSolve or update there is one singular flag per AMR
\* level, and the flag of a level is true exactly when no component has a
\* Dirichlet condition on any side, the level's domain is covered by its own
\* cells, the level has no overset mask, and a_scalar is 0 or the sum of the
\* level's relaxation level 0 A field is at most 1e-12 times its largest
\* magnitude in absolute value.
C12_AsStated ==
    Returned(Refreshes) =>
        /\ DOMAIN abec.m_is_singular = AmrLevels
        /\ \A alev \in AmrLevels :
               abec.m_is_singular[alev] =
                   /\ NoDirichletAnywhere
                   /\ m_domain_covered(alev)
                   /\ ~HasOverset(alev, 0)
                   /\ abec.m_a_scalar = RZero \/ SumNegligible(alev)

\* Relaxation level mglev of AMR level amrlev was coarsened by another ratio
\* than the uniform one.
NonUniformCoarsening(amrlev, mglev) ==
    amrlev = 0 /\ mglev > 0
        /\ scen.mg_coarsen_ratio_vec[mglev] # <<mg_coarsen_ratio, mg_coarsen_ratio>>

\* C13: a running Fsmooth has selected the line-solve variant whenever the
\* coarsening of its level is non-uniform on the base AMR level, also with an
\* overset mask; otherwise the overset variant when the level has an overset
\* mask, and the plain variant when it has none.
C13_AsStated ==
    in_call.op = "Fsmooth" =>
        in_call.arg =
            IF NonUniformCoarsening(in_call.amrlev, in_call.mglev)
            THEN "abec_gsrb_with_line_solve"
            ELSE IF HasOverset(in_call.amrlev, in_call.mglev) THEN "abec_gsrb_os"
            ELSE "abec_gsrb"

\* The sides <<idim, side>> of the domain boundary of AMR level amrlev that
\* the cell c is next to and that have a Robin condition for component 0.
RobinSidesOf(amrlev, c) ==
    LET bx  == scen.levels[amrlev].bx
        dom == scen.levels[amrlev].domain
    IN  {sd \in Dims \X {"lo", "hi"} :
            IF sd[2] = "lo"
            THEN /\ scen.lobc[0][sd[1] + 1] = "Robin"
                 /\ c[sd[1] + 1] = bx.lo[sd[1] + 1] /\ bx.lo[sd[1] + 1] = dom.lo[sd[1] + 1]
            ELSE /\ scen.hibc[0][sd[1] + 1] = "Robin"
                 /\ c[sd[1] + 1] = bx.hi[sd[1] + 1] /\ bx.hi[sd[1] + 1] = dom.hi[sd[1] + 1]}

\* The boundary face of cell c on the side sd.
BoundaryFaceOf(c, sd) ==
    IF sd[2] = "lo" THEN c
    ELSE IF sd[1] = 0 THEN <<c[1] + 1, c[2]>> ELSE <<c[1], c[2] + 1>>

\* B_lin = (b/h - a/2) / (b/h + a/2), with 1/h the inverse cell size
BLin(amrlev) ==
    LET boverh == RMul(RInt(scen.robin[2]), RInt(InvCellSize(amrlev)))
        ahalf  == RDiv(RInt(scen.robin[1]), RInt(2))
    IN  RDiv(RSub(boverh, ahalf), RAdd(boverh, ahalf))

\* scale * (1 - B_lin) * beta / h^2, summed over the Robin sides of cell c,
\* with beta the face coefficient before the call
RobinTermSum(amrlev, c, scale) ==
    LET sides == RobinSidesOf(amrlev, c)
        hinv2 == RInt(InvCellSize(amrlev) * InvCellSize(amrlev))
    IN  RSum(sides,
             [sd \in sides |->
                 RMul(scale,
                      RMul(RMul(RSub(ROne, BLin(amrlev)),
                                abec.m_b_coeffs[amrlev][0][sd[1]][BoundaryFaceOf(c, sd)][0]),
                           hinv2))])

\* Everything but the relaxation level 0 A fields is as before the call, and
\* the call returned without writing outside of them.
OnlyFinestAWritten ==
    /\ abec'.status = "ok" /\ ~abec'.oob
    /\ abec'.m_b_coeffs = abec.m_b_coeffs
    /\ \A amrlev \in AmrLevels : \A mglev \in MgLevels(amrlev) :
           mglev >= 1 => abec'.m_a_coeffs[amrlev][mglev] = abec.m_a_coeffs[amrlev][mglev]

\* C15: applyRobinBCTermsCoeffs returns having written nothing but the
\* relaxation level 0 A fields, and there every cell holds its former value
\* plus (1 - B_lin) * beta / h^2 for each Robin boundary face it is next to
\* (so its former value when it is next to none, and when no boundary is
\* Robin); the values are stated for operators of one component.
C15_AsStated ==
    [][CallOf("applyRobinBCTermsCoeffs") =>
           /\ OnlyFinestAWritten
           /\ NComp = 1 =>
                  \A amrlev \in AmrLevels : \A c \in DOMAIN abec.m_a_coeffs[amrlev][0] :
                      abec'.m_a_coeffs[amrlev][0][c] =
                          RAdd(abec.m_a_coeffs[amrlev][0][c], RobinTermSum(amrlev, c, ROne))]_vars

\* C16: setScalars leaves a_scalar and b_scalar equal to its arguments, and
\* whatever is called next on the object (a coefficient setter, a refresh,
\* averageDownCoeffs, the Robin folding, Fapply, normalize, Fsmooth, FFlux)
\* leaves them equal to those arguments.
C16_AsStated ==
    [][/\ CallOf("setScalars")
           => <<abec'.m_a_scalar, abec'.m_b_scalar>> = last_call'.arg
       /\ last_call.op = "setScalars" /\ ~CallOf("setScalars")
           => <<abec'.m_a_scalar, abec'.m_b_scalar>> = last_call.arg]_vars

\* C17: when a_scalar is 0 while averageDownCoeffs runs (called alone or in a
\* refresh), afterwards the A field of every relaxation level mglev >= 1 of
\* every AMR level is zero, the relaxation level 0 A field of every AMR level
\* is what it was (the restriction from the finer AMR level did not write
\* it), and the face coefficients are what the restriction gives them with a
\* nonzero a_scalar.
C17_ZeroAScalarRestriction ==
    [][CallStep(RestrictingOps) /\ abec'.m_a_scalar = RZero =>
           /\ \A amrlev \in AmrLevels : \A mglev \in MgLevels(amrlev) :
                  mglev >= 1 =>
                      \A c \in DOMAIN abec'.m_a_coeffs[amrlev][mglev] :
                          abec'.m_a_coeffs[amrlev][mglev][c] = RZero
           /\ \A amrlev \in AmrLevels :
                  abec'.m_a_coeffs[amrlev][0] = abec.m_a_coeffs[amrlev][0]
           /\ abec'.m_b_coeffs =
                  averageDownCoeffs([abec EXCEPT !.m_a_scalar = ROne]).m_b_coeffs]_vars

\* C17 witness: two AMR levels after averageDownCoeffs with a_scalar = 0: the
\* coarse relaxation level of AMR level 0 is zero, and its relaxation level 0
\* A is nonzero under the fine level, whose A is nonzero too and has another
\* mean.
C17_Witness ==
    /\ Returned({"averageDownCoeffs"})
    /\ scen.name = "amr2"
    /\ abec.m_a_scalar = RZero
    /\ abec.m_a_coeffs[0][1][<<0, 0>>] = RZero
    /\ abec.m_a_coeffs[0][0][<<0, 0>>] # RZero
    /\ abec.m_a_coeffs[0][0][<<0, 0>>] #
           average_down(abec.m_a_coeffs[1][0], abec.m_a_coeffs[0][0], <<2, 2>>)[<<0, 0>>]

\* The finest AMR level.
FinestAmrLevel == scen.num_amr_levels - 1

\* b_scalar / a_scalar, with 1 in the place of an a_scalar of 0 (line 306)
RobinScale ==
    RDiv(abec.m_b_scalar, IF abec.m_a_scalar = RZero THEN ROne ELSE abec.m_a_scalar)

\* C20: with a Robin boundary, a refresh that follows setACoeffs on the
\* finest AMR level leaves, in every cell next to a Robin boundary, the
\* relaxation level 0 A equal to the value setACoeffs stored plus the Robin
\* term b_scalar / a_scalar * (1 - B_lin) * beta / h^2 of each Robin face of
\* the cell, for update as for prepareForSolve; and prepareForSolve called
\* right after prepareForSolve leaves the relaxation level 0 A as it was.
C20_AsStated ==
    [][(\E op \in Refreshes : CallOf(op)) /\ abec'.status = "ok" /\ hasRobinBC =>
           /\ last_call.op = "setACoeffs" /\ last_call.amrlev = FinestAmrLevel =>
                  \A c \in RobinBoundaryCells(FinestAmrLevel) :
                      abec'.m_a_coeffs[FinestAmrLevel][0][c] =
                          RAdd(abec.m_a_coeffs[FinestAmrLevel][0][c],
                               RobinTermSum(FinestAmrLevel, c, RobinScale))
           /\ last_call.op = "prepareForSolve" /\ CallOf("prepareForSolve") =>
                  abec'.m_a_coeffs[FinestAmrLevel][0] = abec.m_a_coeffs[FinestAmrLevel][0]]_vars

\* The coarser relaxation levels and the singular flags of s are what a
\* refresh computes from the relaxation level 0 coefficients and the scalars
\* that s holds.
DerivedConsistent(s) ==
    LET r == update(s)
    IN  /\ \A amrlev \in AmrLevels : \A mglev \in MgLevels(amrlev) :
               mglev >= 1 =>
                   /\ s.m_a_coeffs[amrlev][mglev] = r.m_a_coeffs[amrlev][mglev]
                   /\ s.m_b_coeffs[amrlev][mglev] = r.m_b_coeffs[amrlev][mglev]
        /\ s.m_is_singular = r.m_is_singular

\* C22: a refresh leaves the store clean with its coarser relaxation levels
\* and singular flags consistent with its relaxation level 0 coefficients
\* and scalars, and setScalars or a coefficient setter called on a clean and
\* consistent store leaves it dirty or consistent.
C22_AsStated ==
    [][/\ (\E op \in Refreshes : CallOf(op)) /\ abec'.status = "ok"
           => ~abec'.m_needs_update /\ DerivedConsistent(abec')
       /\ (/\ \E op \in CoefficientSetters \cup {"setScalars"} : CallOf(op)
           /\ abec'.status = "ok"
           /\ ~abec.m_needs_update /\ DerivedConsistent(abec)
           /\ ~abec'.m_needs_update)
           => DerivedConsistent(abec')]_vars

====
